---- MODULE Spec2Model ----
(***************************************************************************)
(* Model of the pipeline coordinator of kb_python (kb_python/count.py).    *)
(*                                                                         *)
(* One run of one of the entry points count, count_velocity,               *)
(* count_smartseq3 or count_smartseq is a sequence of steps.  Every call   *)
(* of an external tool (kallisto, bustools) and every file operation of    *)
(* the coordinator is appended to `log` as the argument list the code      *)
(* builds for it.  External tools are assumed to succeed; dry-run mode     *)
(* (config.is_dry) and the loom/h5ad conversions (both default to False)   *)
(* are outside the model.  The arguments strand, fragment_l, fragment_s,   *)
(* mm, umi_gene, em, kite, paired and filter_threshold stay at their       *)
(* defaults.                                                               *)
(*                                                                         *)
(* A path is a record [dir, file]: dir is the directory as the sequence of *)
(* its components, file the file name as the sequence of its dot-separated *)
(* parts.  A directory is a path with an empty file name.                  *)
(***************************************************************************)
EXTENDS Integers, Sequences, FiniteSets, TLC

\* Largest number of index shards handed to a run.
MaxIdx == 2

-----------------------------------------------------------------------------
(* File-name constants, imported from kb_python.constants.                 *)

BUS_FILENAME == <<"output", "bus">>
ECMAP_FILENAME == <<"matrix", "ec">>
TXNAMES_FILENAME == <<"transcripts", "txt">>
KALLISTO_INFO_FILENAME == <<"run_info", "json">>
FLENS_FILENAME == <<"flens", "txt">>
SAVED_INDEX_FILENAME == <<"index", "saved">>
BUS_MASHED_FILENAME == <<"mashed", "bus">>
BUS_MERGED_FILENAME == <<"merged", "bus">>
ECMAP_MERGED_FILENAME == <<"merged", "ec">>
WHITELIST_FILENAME == <<"whitelist", "txt">>
FILTER_WHITELIST_FILENAME == <<"filter_barcodes", "txt">>
INSPECT_FILENAME == <<"inspect", "json">>
CAPTURE_FILENAME == <<"capture", "txt">>
BATCH_FILENAME == <<"batch", "txt">>
KB_INFO_FILENAME == <<"kb_info", "json">>
REPORT_NOTEBOOK_FILENAME == <<"report", "ipynb">>
REPORT_HTML_FILENAME == <<"report", "html">>
ABUNDANCE_FILENAME == <<"matrix", "abundance", "mtx">>
ABUNDANCE_TPM_FILENAME == <<"matrix", "abundance", "tpm", "mtx">>
ABUNDANCE_GENE_FILENAME == <<"matrix", "abundance", "gene", "mtx">>
ABUNDANCE_GENE_TPM_FILENAME == <<"matrix", "abundance", "gene", "tpm", "mtx">>
FLD_FILENAME == <<"matrix", "fld">>
GENES_FILENAME == <<"genes", "txt">>
CELLS_FILENAME == <<"matrix", "cells">>
CELLRANGER_MATRIX == <<"matrix", "mtx">>
CELLRANGER_BARCODES == <<"barcodes", "tsv">>
CELLRANGER_GENES == <<"genes", "tsv">>
SORT_CODE == "s"
CORRECT_CODE == "c"
PROJECT_CODE == "p"
UNFILTERED_CODE == "unfiltered"
FILTERED_CODE == "filtered"
BUS_CDNA_PREFIX == "spliced"
BUS_INTRON_PREFIX == "unspliced"
COUNTS_PREFIX == "cells_x_genes"
TCC_PREFIX == "cells_x_tcc"
UNFILTERED_COUNTS_DIR == "counts_unfiltered"
FILTERED_COUNTS_DIR == "counts_filtered"
UNFILTERED_QUANT_DIR == "quant_unfiltered"
CELLRANGER_DIR == "cellranger"
INTERNAL_SUFFIX == "_internal"
UMI_SUFFIX == "_umi"

-----------------------------------------------------------------------------
(* Paths.                                                                  *)

NoPath == [dir |-> <<>>, file |-> <<>>]

\* os.path.join(directory, file name)
Join(dir, file) == [dir |-> dir, file |-> file]

\* os.path.join(directory, directory name)
SubDir(dir, name) == Append(dir, name)

\* a directory as a path
Dir(dir) == [dir |-> dir, file |-> <<>>]

\* os.path.basename
basename(path) == path.file

\* os.path.dirname
dirname(path) == path.dir

\* utils.update_filename: the code goes in front of the extension
update_filename(file, code) ==
    IF Len(file) <= 1 THEN file \o <<code>>
    ELSE SubSeq(file, 1, Len(file) - 1) \o <<code, file[Len(file)]>>

\* f'{out_prefix}.mtx' and the like: parts appended to a prefix
WithSuffix(path, parts) == [dir |-> path.dir, file |-> path.file \o parts]

\* f'output{INTERNAL_SUFFIX}.bus': a suffix glued to the first part
Glued(stem, suffix, ext) == <<stem \o suffix, ext>>

\* utils.get_temporary_filename: a fresh file in the temporary directory
get_temporary_filename(temp_dir, n) == Join(temp_dir, <<"tmpfile" \o ToString(n)>>)

\* The directories of a run.
OUT_DIR == <<"out">>
TEMP_DIR == <<"tmp">>

\* Does the path lie in (a subdirectory of) the directory?
Under(path, dir) ==
    /\ Len(path.dir) >= Len(dir)
    /\ SubSeq(path.dir, 1, Len(dir)) = dir

-----------------------------------------------------------------------------
(* Argument lists.  An argument is a string or a path.                     *)

S(s) == [s |-> s, p |-> NoPath]
P(p) == [s |-> "", p |-> p]
D(dir) == P(Dir(dir))

IfArg(cond, args) == IF cond THEN args ELSE <<>>

\* technology.upper()
Upper(t) ==
    CASE t = "10xv2" -> "10XV2"
      [] t = "bulk" -> "BULK"
      [] t = "smartseq2" -> "SMARTSEQ2"
      [] t = "smartseq3" -> "SMARTSEQ3"
      [] OTHER -> t

\* A dictionary of named paths.
Dict1(k, v) == k :> v

Has(d, k) == k \in DOMAIN d

\* dict.update
Updated(d, e) == e @@ d

-----------------------------------------------------------------------------
(* The wrappers of the external tools.  Each gives the argument list it    *)
(* runs (cmd) and the dictionary it returns (res).                         *)

THREADS == S("8")
MEMORY == S("4G")

kallisto_pseudo(batch_path, index_path, out_dir) ==
    [cmd |-> <<S("kallisto"), S("pseudo"), S("--quant"),
               S("-i"), S(index_path), S("-o"), D(out_dir),
               S("-b"), P(batch_path), S("-t"), THREADS>>,
     res |-> ("mtx" :> Join(out_dir, ABUNDANCE_FILENAME))
          @@ ("ecmap" :> Join(out_dir, ECMAP_FILENAME))
          @@ ("cells" :> Join(out_dir, CELLS_FILENAME))
          @@ ("txnames" :> Join(out_dir, TXNAMES_FILENAME))
          @@ ("info" :> Join(out_dir, KALLISTO_INFO_FILENAME))]

\* fastqs is [batch |-> is it a single batch file, items |-> its arguments]
kallisto_bus(fastqs, index_path, technology, out_dir, n, k, paired) ==
    LET is_batch == fastqs.batch
    IN  [cmd |-> <<S("kallisto"), S("bus"), S("-i"), S(index_path),
                   S("-o"), D(out_dir)>>
                 \o IfArg(~is_batch, <<S("-x"), S(technology)>>)
                 \o <<S("-t"), THREADS>>
                 \o IfArg(n, <<S("--num")>>)
                 \o IfArg(k, <<S("--kmer")>>)
                 \o IfArg(paired, <<S("--paired")>>)
                 \o IfArg(is_batch, <<S("--batch")>>)
                 \o fastqs.items,
         res |-> ("bus" :> Join(out_dir, BUS_FILENAME))
              @@ ("ecmap" :> Join(out_dir, ECMAP_FILENAME))
              @@ ("txnames" :> Join(out_dir, TXNAMES_FILENAME))
              @@ ("info" :> Join(out_dir, KALLISTO_INFO_FILENAME))
              @@ (IF paired
                  THEN "flens" :> Join(out_dir, FLENS_FILENAME)
                  ELSE <<>>)
              @@ (IF Upper(technology) \in {"BULK", "SMARTSEQ3"}
                  THEN "saved_index" :> Join(out_dir, SAVED_INDEX_FILENAME)
                  ELSE <<>>)]

kallisto_quant_tcc(mtx_path, saved_index_path, ecmap_path, t2g_path, out_dir, flens_path) ==
    [cmd |-> <<S("kallisto"), S("quant-tcc"), S("-o"), D(out_dir),
               S("-i"), P(saved_index_path), S("-e"), P(ecmap_path),
               S("-g"), S(t2g_path), S("-t"), THREADS>>
             \o IfArg(flens_path # NoPath, <<S("-f"), P(flens_path)>>)
             \o <<P(mtx_path)>>,
     res |-> ("genes" :> Join(out_dir, GENES_FILENAME))
          @@ ("gene_mtx" :> Join(out_dir, ABUNDANCE_GENE_FILENAME))
          @@ ("gene_tpm_mtx" :> Join(out_dir, ABUNDANCE_GENE_TPM_FILENAME))
          @@ ("mtx" :> Join(out_dir, ABUNDANCE_FILENAME))
          @@ ("tpm_mtx" :> Join(out_dir, ABUNDANCE_TPM_FILENAME))
          @@ ("fld" :> Join(out_dir, FLD_FILENAME))
          @@ ("txnames" :> Join(out_dir, TXNAMES_FILENAME))]

\* out_dirs is a sequence of directories
bustools_mash(out_dirs, out_dir) ==
    [cmd |-> <<S("bustools"), S("mash"), S("-o"), D(out_dir)>>
             \o [j \in 1..Len(out_dirs) |-> D(out_dirs[j])],
     res |-> ("bus" :> Join(out_dir, BUS_MASHED_FILENAME))
          @@ ("ecmap" :> Join(out_dir, ECMAP_FILENAME))
          @@ ("txnames" :> Join(out_dir, TXNAMES_FILENAME))
          @@ ("info" :> Join(out_dir, KALLISTO_INFO_FILENAME))]

\* (variant: the mashed file is returned as the merged one)
bustools_merge_ReturnsMashed(bus_path, out_dir, ecmap_path, txnames_path) ==
    [cmd |-> <<S("bustools"), S("merge"), S("-o"), D(out_dir),
               S("-e"), P(ecmap_path), S("-t"), P(txnames_path),
               P(bus_path)>>,
     res |-> ("bus" :> Join(out_dir, BUS_MASHED_FILENAME))
          @@ ("ecmap" :> Join(out_dir, ECMAP_MERGED_FILENAME))]

bustools_merge(bus_path, out_dir, ecmap_path, txnames_path) ==
    [cmd |-> <<S("bustools"), S("merge"), S("-o"), D(out_dir),
               S("-e"), P(ecmap_path), S("-t"), P(txnames_path),
               P(bus_path)>>,
     res |-> ("bus" :> Join(out_dir, BUS_MERGED_FILENAME))
          @@ ("ecmap" :> Join(out_dir, ECMAP_MERGED_FILENAME))]

bustools_project(bus_path, out_path, map_path, ecmap_path, txnames_path) ==
    [cmd |-> <<S("bustools"), S("project"), S("-o"), P(out_path),
               S("-m"), P(map_path), S("-e"), P(ecmap_path),
               S("-t"), P(txnames_path), S("--barcode"), P(bus_path)>>,
     res |-> ("bus" :> out_path)]

\* (variant: the path of the input is returned instead of the output)
bustools_sort_ReturnsInput(bus_path, out_path, temp_dir, flags) ==
    [cmd |-> <<S("bustools"), S("sort"), S("-o"), P(out_path),
               S("-T"), D(temp_dir), S("-t"), THREADS, S("-m"), MEMORY>>
             \o IfArg(flags, <<S("--flags")>>)
             \o <<P(bus_path)>>,
     res |-> ("bus" :> bus_path)]

bustools_sort(bus_path, out_path, temp_dir, flags) ==
    [cmd |-> <<S("bustools"), S("sort"), S("-o"), P(out_path),
               S("-T"), D(temp_dir), S("-t"), THREADS, S("-m"), MEMORY>>
             \o IfArg(flags, <<S("--flags")>>)
             \o <<P(bus_path)>>,
     res |-> ("bus" :> out_path)]

bustools_inspect(bus_path, out_path, whitelist_path) ==
    [cmd |-> <<S("bustools"), S("inspect"), S("-o"), P(out_path)>>
             \o IfArg(whitelist_path # NoPath, <<S("-w"), P(whitelist_path)>>)
             \o <<P(bus_path)>>,
     res |-> ("inspect" :> out_path)]

\* (variant: the path of the input is returned as the output)
bustools_correct_ReturnsInput(bus_path, out_path, whitelist_path) ==
    [cmd |-> <<S("bustools"), S("correct"), S("-o"), P(out_path),
               S("-w"), P(whitelist_path), P(bus_path)>>,
     res |-> ("bus" :> bus_path)]

bustools_correct(bus_path, out_path, whitelist_path) ==
    [cmd |-> <<S("bustools"), S("correct"), S("-o"), P(out_path),
               S("-w"), P(whitelist_path), P(bus_path)>>,
     res |-> ("bus" :> out_path)]

bustools_count(bus_path, out_prefix, t2g_path, ecmap_path, txnames_path, tcc, mm, cm, umi_gene) ==
    [cmd |-> <<S("bustools"), S("count"), S("-o"), P(out_prefix),
               S("-g"), S(t2g_path), S("-e"), P(ecmap_path),
               S("-t"), P(txnames_path)>>
             \o IfArg(~tcc, <<S("--genecounts")>>)
             \o IfArg(mm, <<S("--multimapping")>>)
             \o IfArg(cm, <<S("--cm")>>)
             \o IfArg(umi_gene, <<S("--umi-gene")>>)
             \o <<P(bus_path)>>,
     res |-> ("mtx" :> WithSuffix(out_prefix, <<"mtx">>))
          @@ (IF tcc
              THEN "ec" :> WithSuffix(out_prefix, <<"ec", "txt">>)
              ELSE "genes" :> WithSuffix(out_prefix, <<"genes", "txt">>))
          @@ ("barcodes" :> WithSuffix(out_prefix, <<"barcodes", "txt">>))]

\* ecmap_path and txnames_path are NoPath when not given
bustools_capture(bus_path, out_path, capture_path, ecmap_path, txnames_path, capture_type, complement) ==
    [cmd |-> <<S("bustools"), S("capture"), S("-o"), P(out_path),
               S("-c"), P(capture_path)>>
             \o IfArg(ecmap_path # NoPath, <<S("-e"), P(ecmap_path)>>)
             \o IfArg(txnames_path # NoPath, <<S("-t"), P(txnames_path)>>)
             \o IfArg(complement, <<S("--complement")>>)
             \o <<S("--" \o capture_type), P(bus_path)>>,
     res |-> ("bus" :> out_path)]

\* threshold is 0 when not given
bustools_whitelist(bus_path, out_path, threshold) ==
    [cmd |-> <<S("bustools"), S("whitelist"), S("-o"), P(out_path)>>
             \o IfArg(threshold # 0, <<S("--threshold"), S(ToString(threshold))>>)
             \o <<P(bus_path)>>,
     res |-> ("whitelist" :> out_path)]

-----------------------------------------------------------------------------
(* Helpers of the coordinator.                                             *)

\* An entry of the log: the function that made the call and the arguments.
Ev(caller, cmd) == [caller |-> caller, cmd |-> cmd]

\* A file operation or library call of the coordinator itself.
Py(name, args) == <<S("py"), S(name)>> \o args

\* (variant: ftp is not taken for a remote scheme)
IsRemote_NoFtp(fastq) == fastq.scheme \in {"http", "https", "ftps"}

\* urlparse(fastq).scheme in ('http', 'https', 'ftp', 'ftps')
IsRemote(fastq) == fastq.scheme \in {"http", "https", "ftp", "ftps"}

\* stream_fastqs: every remote FASTQ is replaced by a local pipe in temp_dir
stream_fastqs(fastqs, temp_dir) ==
    [j \in 1..Len(fastqs) |->
        IF IsRemote(fastqs[j])
        THEN [scheme |-> "", path |-> Join(temp_dir, basename(fastqs[j].path))]
        ELSE fastqs[j]]

\* the utils.stream_file calls stream_fastqs makes
stream_events(caller, fastqs, temp_dir) ==
    LET remote == SelectSeq(fastqs, IsRemote)
    IN  [j \in 1..Len(remote) |->
            Ev(caller, Py("stream_file",
                          <<P(remote[j].path),
                            P(Join(temp_dir, basename(remote[j].path)))>>))]

\* the arguments kallisto bus gets for a list of FASTQs
FastqArgs(fastqs) == [j \in 1..Len(fastqs) |-> P(fastqs[j].path)]

\* utils.whitelist_provided
whitelist_provided(technology) == Upper(technology) \in {"10XV2"}

\* utils.copy_whitelist: the path of the copy in out_dir
copy_whitelist(technology, out_dir) ==
    Join(out_dir, <<Upper(technology) \o "_whitelist", "txt">>)

\* utils.copy_map: the path of the copy in out_dir
copy_map(technology, out_dir) ==
    Join(out_dir, <<Upper(technology) \o "_feature_barcode_map", "txt">>)

\* (variant: the whitelist is always generated)
copy_or_create_whitelist_AlwaysCreates(technology, bus_path, out_dir) ==
    LET f == "copy_or_create_whitelist"
        call == Ev("call", Py(f, <<S(technology), P(bus_path), D(out_dir)>>))
        w == bustools_whitelist(bus_path, Join(out_dir, WHITELIST_FILENAME), 0)
    IN  [events |-> <<call, Ev(f, w.cmd)>>, path |-> w.res["whitelist"]]

copy_or_create_whitelist(technology, bus_path, out_dir) ==
    LET f == "copy_or_create_whitelist"
        call == Ev("call", Py(f, <<S(technology), P(bus_path), D(out_dir)>>))
    IN  IF whitelist_provided(technology)
        THEN [events |-> <<call, Ev(f, Py("copy_whitelist",
                                          <<S(technology), D(out_dir)>>))>>,
              path |-> copy_whitelist(technology, out_dir)]
        ELSE LET w == bustools_whitelist(bus_path,
                                         Join(out_dir, WHITELIST_FILENAME), 0)
             IN  [events |-> <<call, Ev(f, w.cmd)>>,
                  path |-> w.res["whitelist"]]

matrix_to_cellranger(matrix_path, barcodes_path, genes_path, t2g_path, out_dir) ==
    [cmd |-> Py("matrix_to_cellranger",
                <<P(matrix_path), P(barcodes_path), P(genes_path),
                  S(t2g_path), D(out_dir)>>),
     res |-> ("mtx" :> Join(out_dir, CELLRANGER_MATRIX))
          @@ ("barcodes" :> Join(out_dir, CELLRANGER_BARCODES))
          @@ ("genes" :> Join(out_dir, CELLRANGER_GENES))]

\* The keys of a nested dictionary are written section.key.
Prefixed(prefix, d) ==
    LET pairs == {<<prefix \o "." \o k, d[k]>> : k \in DOMAIN d}
    IN  [kk \in {pr[1] : pr \in pairs} |->
            (CHOOSE pr \in pairs : pr[1] = kk)[2]]

filter_with_bustools(bus_path, ecmap_path, txnames_path, t2g_path, whitelist_path, filtered_bus_path, counts_prefix, tcc, mm, temp_dir, count, cellranger, umi_gene) ==
    LET whitelist_result == bustools_whitelist(bus_path, whitelist_path, 0)
        correct_result ==
            bustools_correct(
                bus_path,
                Join(temp_dir, update_filename(basename(bus_path), CORRECT_CODE)),
                whitelist_result.res["whitelist"])
        sort_result == bustools_sort(correct_result.res["bus"],
                                     filtered_bus_path, temp_dir, FALSE)
        counts_dir == dirname(counts_prefix)
        count_result == bustools_count(sort_result.res["bus"], counts_prefix,
                                       t2g_path, ecmap_path, txnames_path,
                                       tcc, mm, FALSE, umi_gene)
        cr_result ==
            matrix_to_cellranger(count_result.res["mtx"],
                                 count_result.res["barcodes"],
                                 count_result.res["genes"], t2g_path,
                                 SubDir(counts_dir, CELLRANGER_DIR))
        f == "filter_with_bustools"
    IN  [events |->
            <<Ev(f, whitelist_result.cmd), Ev(f, correct_result.cmd),
              Ev(f, sort_result.cmd)>>
            \o IfArg(count,
                     <<Ev(f, Py("make_directory", <<D(counts_dir)>>)),
                       Ev(f, count_result.cmd)>>)
            \o IfArg(count /\ cellranger /\ ~tcc, <<Ev(f, cr_result.cmd)>>)
            \o IfArg(count /\ cellranger /\ tcc,
                     <<Ev(f, Py("logger.warning", <<S("TCC matrices can not be converted to cellranger-compatible format.")>>))>>),
         res |->
            whitelist_result.res
            @@ ("bus_scs" :> sort_result.res["bus"])
            @@ (IF count THEN count_result.res ELSE <<>>)
            @@ (IF count /\ cellranger /\ ~tcc
                THEN Prefixed("cellranger", cr_result.res) ELSE <<>>)]

-----------------------------------------------------------------------------
(* The inputs of a run.                                                    *)

UserPath(file) == Join(<<"in">>, file)

\* index_paths
IndexPath(j) == "index" \o ToString(j)

T2G == "t2g.txt"

L1 == [scheme |-> "", path |-> UserPath(<<"R1", "fastq">>)]
L2 == [scheme |-> "", path |-> UserPath(<<"R2", "fastq">>)]
R1 == [scheme |-> "https", path |-> Join(<<"host">>, <<"R1", "fastq">>)]
R2 == [scheme |-> "ftp", path |-> Join(<<"host">>, <<"R2", "fastq">>)]
R3 == [scheme |-> "http", path |-> Join(<<"host">>, <<"R1", "fastq">>)]
R4 == [scheme |-> "ftps", path |-> Join(<<"host">>, <<"R2", "fastq">>)]

\* A batch definition file, and the same string iterated character by
\* character, as Python does when a str is used where a list is expected.
BatchPath == UserPath(<<"b">>)
BatchChars == [j \in 1..4 |->
                 [scheme |-> "", path |-> Join(<<>>, <<<<"i", "n", "/", "b">>[j]>>)]]

\* fastqs: a list of FASTQs, or a single batch file
FastqInputs ==
    {[batch |-> FALSE, list |-> <<L1, L2>>],
     [batch |-> FALSE, list |-> <<R1, L2>>],
     [batch |-> TRUE, list |-> <<>>]}

\* fastq_pairs of count_smartseq
FastqPairInputs ==
    {<<<<L1, L2>>>>, <<<<L1, L2>>, <<L1, R2>>>>, <<<<R1, L2>>>>,
     <<<<R3, L2>>, <<L1, L2>>>>, <<<<L1, R4>>>>}

\* The files whose absence from out_dir the entry points test.
ExpectedFiles ==
    {BUS_FILENAME, KALLISTO_INFO_FILENAME, SAVED_INDEX_FILENAME,
     FLENS_FILENAME, CELLS_FILENAME}

\* overwrite and the set of files missing from out_dir
ExistingInputs ==
    {[overwrite |-> TRUE, missing |-> {}],
     [overwrite |-> FALSE, missing |-> {}]}
    \cup {[overwrite |-> FALSE, missing |-> {Join(OUT_DIR, f)}] :
             f \in ExpectedFiles}

Whitelists == {NoPath, UserPath(<<"wl", "txt">>)}

Filters == {"", "bustools"}

\* The arguments an entry point reads at its start are drawn in Init.  The
\* others are at their defaults until the code first reads them, and are
\* drawn there: a run never depends on an argument it has not read.
Defaults ==
    [whitelist_path |-> NoPath, tcc |-> FALSE, FB |-> FALSE, inspect |-> TRUE,
     cellranger |-> FALSE, report |-> FALSE, filter |-> "", paired |-> FALSE,
     pairs |-> <<>>]

\* The configurations that differ from c in the named arguments only.
Free(c, names) ==
    LET Opt(name, all) == IF name \in names THEN all ELSE {c[name]}
    IN  {[c EXCEPT !.whitelist_path = w, !.tcc = t, !.FB = fb, !.inspect = i,
                   !.cellranger = cr, !.report = r, !.filter = f] :
            w \in Opt("whitelist_path", Whitelists),
            t \in Opt("tcc", BOOLEAN),
            fb \in Opt("FB", BOOLEAN),
            i \in Opt("inspect", BOOLEAN),
            cr \in Opt("cellranger", BOOLEAN),
            r \in Opt("report", BOOLEAN),
            f \in Opt("filter", Filters)}

WithDefaults(early) == {e @@ Defaults : e \in early}

CountConfigs ==
    WithDefaults([fn : {"count"}, technology : {"10xv2", "BULK", "smartseq2"},
                  nidx : 1..MaxIdx, fastqs : FastqInputs,
                  existing : ExistingInputs])

VelocityConfigs ==
    WithDefaults([fn : {"count_velocity"}, technology : {"10xv2", "DROPSEQ"},
                  nidx : 1..MaxIdx, fastqs : FastqInputs,
                  existing : ExistingInputs])

Smartseq3Configs ==
    WithDefaults([fn : {"count_smartseq3"}, technology : {"SMARTSEQ3"},
                  nidx : 1..MaxIdx, fastqs : FastqInputs,
                  existing : ExistingInputs])

SmartseqConfigs ==
    {[c EXCEPT !.pairs = fp] :
        c \in WithDefaults([fn : {"count_smartseq"}, technology : {"SMARTSEQ"},
                            nidx : 1..MaxIdx,
                            fastqs : {[batch |-> FALSE, list |-> <<>>]},
                            existing : ExistingInputs]),
        fp \in FastqPairInputs}

Configs ==
    CountConfigs \cup VelocityConfigs \cup Smartseq3Configs
    \cup SmartseqConfigs

\* os.path.exists at the start of the run
exists(c, path) == path \notin c.existing.missing

-----------------------------------------------------------------------------
(* State.                                                                  *)

VARIABLES
    cfg,      \* the arguments of the run
    pc,       \* the position in the code
    status,   \* "running", "done" or the name of the exception raised
    log,      \* the calls made so far
    loc,      \* the local variables of the entry point and its callees
    results   \* the results dictionary, keys written section.key

vars == <<cfg, pc, status, log, loc, results>>

EmptyDict == <<>>

InitLoc(c) ==
    [bus_result |-> EmptyDict,
     fastqs |-> IF c.fastqs.batch
                THEN [batch |-> TRUE, list |-> <<>>, path |-> BatchPath]
                ELSE [batch |-> FALSE, list |-> c.fastqs.list, path |-> NoPath],
     whitelist_path |-> c.whitelist_path,
     sort_result |-> EmptyDict,
     prev_result |-> EmptyDict,
     inspect_result |-> EmptyDict,
     count_result |-> EmptyDict,
     part_dirs |-> <<>>,
     mash_result |-> EmptyDict,
     i |-> 0,
     k |-> 0,
     ntemp |-> 0]

Init ==
    /\ cfg \in Configs
    /\ pc = "start"
    /\ status = "running"
    /\ log = <<>>
    /\ loc = InitLoc(cfg)
    /\ results = EmptyDict

\* An exception leaves the entry point; the arguments the run has not read
\* yet can have had any value.
Raise(name, unread) ==
    /\ status' = name
    /\ pc' = "end"
    /\ cfg' \in Free(cfg, unread)

\* The arguments kallisto_bus gets for the current value of fastqs.
BusFastqs(f) ==
    [batch |-> f.batch,
     items |-> IF f.batch THEN <<P(f.path)>> ELSE FastqArgs(f.list)]

\* What a for loop over fastqs sees: the elements of a list, the characters
\* of a str.
Iterate(f) == IF f.batch THEN BatchChars ELSE f.list

\* _technology of count
CountTechnology(c) ==
    IF Upper(c.technology) = "SMARTSEQ2" THEN "BULK" ELSE c.technology

-----------------------------------------------------------------------------
(* kallisto_bus_split, called by count, count_velocity and count_smartseq3 *)
(* when more than one index is given.                                      *)

SplitTechnology(c) ==
    CASE c.fn = "count" -> CountTechnology(c)
      [] c.fn = "count_smartseq3" -> "SMARTSEQ3"
      [] OTHER -> c.technology

SplitPaired(c) ==
    CASE c.fn = "count" -> c.paired
      [] c.fn = "count_smartseq3" -> TRUE
      [] OTHER -> FALSE

\* where the caller continues
SplitReturn(c) ==
    CASE c.fn = "count" -> "count_sort"
      [] c.fn = "count_smartseq3" -> "s3_sort"
      [] OTHER -> "velocity_sort"

\* (variant: every shard is written to the same directory)
BusPartDir_Shared(temp_dir, i) == SubDir(temp_dir, "bus_part" \o ToString(0))

BusPartDir(temp_dir, i) == SubDir(temp_dir, "bus_part" \o ToString(i))

\* One iteration of the loop over the index shards.
SplitPart ==
    /\ pc = "split_part"
    /\ loc.i < cfg.nidx
    /\ LET f == "kallisto_bus_split"
           i == loc.i
           bus_part_dir == BusPartDir(TEMP_DIR, i)
           streamed == stream_fastqs(Iterate(loc.fastqs), TEMP_DIR)
           fastqs == [batch |-> FALSE, list |-> streamed, path |-> NoPath]
           bus == kallisto_bus(BusFastqs(fastqs), IndexPath(i + 1),
                               SplitTechnology(cfg), bus_part_dir,
                               TRUE, TRUE, SplitPaired(cfg))
           bus_part == Join(bus_part_dir, BUS_FILENAME)
           sort_part == bustools_sort(
                            bus_part,
                            get_temporary_filename(TEMP_DIR, loc.ntemp),
                            TEMP_DIR, TRUE)
       IN  /\ log' = log
                     \o stream_events("stream_fastqs", Iterate(loc.fastqs), TEMP_DIR)
                     \o <<Ev(f, bus.cmd), Ev(f, sort_part.cmd),
                          Ev(f, Py("move_file",
                                   <<P(sort_part.res["bus"]), P(bus_part)>>))>>
           /\ loc' = [loc EXCEPT !.fastqs = fastqs,
                                 !.part_dirs = Append(@, bus_part_dir),
                                 !.ntemp = @ + 1,
                                 !.i = i + 1]
           /\ pc' = IF i + 1 < cfg.nidx THEN "split_part" ELSE "split_mash"
    /\ UNCHANGED <<cfg, status, results>>

\* Mash the parts into one and sort by flag again.
SplitMash ==
    /\ pc = "split_mash"
    /\ LET f == "kallisto_bus_split"
           mash_result == bustools_mash(loc.part_dirs, OUT_DIR)
           sort_result == bustools_sort(
                              mash_result.res["bus"],
                              get_temporary_filename(TEMP_DIR, loc.ntemp),
                              TEMP_DIR, TRUE)
       IN  /\ log' = log
                     \o <<Ev(f, mash_result.cmd), Ev(f, sort_result.cmd),
                          Ev(f, Py("move_file",
                                   <<P(sort_result.res["bus"]),
                                     P(mash_result.res["bus"])>>))>>
           /\ loc' = [loc EXCEPT !.mash_result = mash_result.res,
                                 !.ntemp = @ + 1]
    /\ pc' = "split_merge"
    /\ UNCHANGED <<cfg, status, results>>

\* Merge, move the merged files into place and return to the caller.
SplitMerge ==
    /\ pc = "split_merge"
    /\ LET f == "kallisto_bus_split"
           mash_result == loc.mash_result
           merge_result == bustools_merge(mash_result["bus"], OUT_DIR,
                                          mash_result["ecmap"],
                                          mash_result["txnames"])
           bus_path == Join(OUT_DIR, BUS_FILENAME)
           ecmap_path == Join(OUT_DIR, ECMAP_FILENAME)
       IN  /\ log' = log
                     \o <<Ev(f, merge_result.cmd),
                          Ev(f, Py("move_file",
                                   <<P(merge_result.res["bus"]), P(bus_path)>>)),
                          Ev(f, Py("move_file",
                                   <<P(merge_result.res["ecmap"]), P(ecmap_path)>>))>>
           /\ loc' = [loc EXCEPT !.bus_result =
                          ("bus" :> bus_path)
                          @@ ("ecmap" :> ecmap_path)
                          @@ ("txnames" :> Join(OUT_DIR, TXNAMES_FILENAME))
                          @@ ("info" :> Join(OUT_DIR, KALLISTO_INFO_FILENAME))]
    /\ pc' = SplitReturn(cfg)
    /\ UNCHANGED <<cfg, status, results>>

-----------------------------------------------------------------------------
(* count                                                                   *)

\* The default bus_result of count.
CountBusDefault(c) ==
    ("bus" :> Join(OUT_DIR, BUS_FILENAME))
    @@ ("ecmap" :> Join(OUT_DIR, ECMAP_FILENAME))
    @@ ("txnames" :> Join(OUT_DIR, TXNAMES_FILENAME))
    @@ ("info" :> Join(OUT_DIR, KALLISTO_INFO_FILENAME))
    @@ (IF Upper(c.technology) \in {"BULK", "SMARTSEQ2"}
        THEN "saved_index" :> Join(OUT_DIR, SAVED_INDEX_FILENAME)
        ELSE EmptyDict)

\* (variant: files that exist already are always overwritten only on request)
MustRun_OverwriteOnly(c, expected) == c.existing.overwrite

\* any(not os.path.exists(path) ...) or overwrite
MustRun(c, expected) ==
    \/ \E k \in DOMAIN expected : ~exists(c, expected[k])
    \/ c.existing.overwrite

\* The start of count, up to the decision whether to run kallisto bus.
CountBegin ==
    /\ pc = "start"
    /\ cfg.fn = "count"
    /\ LET bus_result == CountBusDefault(cfg)
       IN  /\ loc' = [loc EXCEPT !.bus_result = bus_result]
           /\ pc' = IF MustRun(cfg, bus_result)
                    THEN IF cfg.nidx > 1 THEN "split_part" ELSE "count_bus"
                    ELSE "count_sort"
    /\ log' = log \o <<Ev("count", Py("make_directory", <<D(OUT_DIR)>>))>>
    /\ UNCHANGED <<cfg, status, results>>

\* (variant: the batch file given is returned instead of the rewritten one)
stream_batch_ReturnsGiven(batch_path, temp_dir, n) ==
    [events |-> <<Ev("stream_batch",
                     Py("rewrite_batch",
                        <<P(batch_path), P(get_temporary_filename(temp_dir, n))>>))>>,
     path |-> batch_path]

\* stream_batch: the rewritten batch file is a fresh temporary file
stream_batch(batch_path, temp_dir, n) ==
    [events |-> <<Ev("stream_batch",
                     Py("rewrite_batch",
                        <<P(batch_path), P(get_temporary_filename(temp_dir, n))>>))>>,
     path |-> get_temporary_filename(temp_dir, n)]

\* kallisto bus with a single index.
CountBus ==
    /\ pc = "count_bus"
    /\ LET is_batch == cfg.fastqs.batch
           new_batch == stream_batch(loc.fastqs.path, TEMP_DIR, loc.ntemp)
           fastqs ==
               IF is_batch
               THEN [batch |-> TRUE, list |-> <<>>, path |-> new_batch.path]
               ELSE [batch |-> FALSE,
                     list |-> stream_fastqs(loc.fastqs.list, TEMP_DIR),
                     path |-> NoPath]
           bus == kallisto_bus(BusFastqs(fastqs), IndexPath(1),
                               CountTechnology(cfg), OUT_DIR,
                               FALSE, FALSE, cfg.paired)
       IN  /\ log' = log
                     \o (IF is_batch THEN new_batch.events
                         ELSE stream_events("stream_fastqs", loc.fastqs.list, TEMP_DIR))
                     \o <<Ev("count", bus.cmd)>>
           /\ loc' = [loc EXCEPT !.fastqs = fastqs,
                                 !.ntemp = IF is_batch THEN @ + 1 ELSE @,
                                 !.bus_result = bus.res]
    /\ pc' = "count_sort"
    /\ UNCHANGED <<cfg, status, results>>

\* The first bustools sort.
CountSort ==
    /\ pc = "count_sort"
    /\ LET bus_result == loc.bus_result
           sort_result ==
               bustools_sort(
                   bus_result["bus"],
                   Join(TEMP_DIR,
                        update_filename(basename(bus_result["bus"]), SORT_CODE)),
                   TEMP_DIR, FALSE)
       IN  /\ results' = Updated(results, Prefixed("unfiltered", bus_result))
           /\ log' = Append(log, Ev("count", sort_result.cmd))
           /\ loc' = [loc EXCEPT !.sort_result = sort_result.res]
    /\ pc' = "count_whitelist"
    /\ UNCHANGED <<cfg, status>>

\* The whitelist, when none was given.
CountWhitelist ==
    /\ pc = "count_whitelist"
    /\ \E c \in Free(cfg, {"whitelist_path"}) :
        /\ cfg' = c
        /\ LET is_batch == c.fastqs.batch
               w == copy_or_create_whitelist(c.technology,
                                             loc.sort_result["bus"], OUT_DIR)
           IN  IF c.whitelist_path = NoPath /\ ~is_batch
               THEN /\ log' = log \o w.events
                    /\ loc' = [loc EXCEPT !.whitelist_path = w.path,
                                          !.prev_result = loc.sort_result]
                    /\ results' =
                           Updated(results,
                                   Prefixed("unfiltered", "whitelist" :> w.path))
               ELSE /\ loc' = [loc EXCEPT !.whitelist_path = c.whitelist_path,
                                          !.prev_result = loc.sort_result]
                    /\ UNCHANGED <<log, results>>
    /\ pc' = "count_fb"
    /\ UNCHANGED status

\* Feature barcoding: project and sort again.
CountFB ==
    /\ pc = "count_fb"
    /\ \E c \in Free(cfg, {"FB"}) :
        /\ cfg' = c
        /\ LET sort_result == loc.sort_result
               bus_result == loc.bus_result
               map_path == copy_map(c.technology, OUT_DIR)
               project_result ==
                   bustools_project(
                       sort_result["bus"],
                       Join(TEMP_DIR,
                            update_filename(basename(sort_result["bus"]),
                                            PROJECT_CODE)),
                       map_path, bus_result["ecmap"], bus_result["txnames"])
               sort2_result ==
                   bustools_sort(
                       project_result.res["bus"],
                       Join(TEMP_DIR,
                            update_filename(basename(project_result.res["bus"]),
                                            SORT_CODE)),
                       TEMP_DIR, FALSE)
           IN  IF c.FB
               THEN /\ log' = log
                              \o <<Ev("count", Py("copy_map",
                                                  <<S(c.technology), D(OUT_DIR)>>)),
                                   Ev("count", project_result.cmd),
                                   Ev("count", sort2_result.cmd)>>
                    /\ loc' = [loc EXCEPT !.prev_result = sort2_result.res]
               ELSE UNCHANGED <<log, loc>>
    /\ pc' = "count_inspect"
    /\ UNCHANGED <<status, results>>

CountInspect ==
    /\ pc = "count_inspect"
    /\ \E c \in Free(cfg, {"inspect"}) :
        /\ cfg' = c
        /\ LET inspect_result ==
                   bustools_inspect(loc.prev_result["bus"],
                                    Join(OUT_DIR, INSPECT_FILENAME),
                                    loc.whitelist_path)
           IN  IF c.inspect
               THEN /\ log' = Append(log, Ev("count", inspect_result.cmd))
                    /\ loc' = [loc EXCEPT !.inspect_result = inspect_result.res]
                    /\ results' =
                           Updated(results,
                                   Prefixed("unfiltered", inspect_result.res))
               ELSE UNCHANGED <<log, loc, results>>
    /\ pc' = "count_correct"
    /\ UNCHANGED status

\* Barcode correction and the sort after it, unless fastqs is a batch file.
CountCorrect ==
    /\ pc = "count_correct"
    /\ LET is_batch == cfg.fastqs.batch
           prev_result == loc.prev_result
           correct_result ==
               bustools_correct(
                   prev_result["bus"],
                   Join(TEMP_DIR,
                        update_filename(basename(prev_result["bus"]), CORRECT_CODE)),
                   loc.whitelist_path)
           sort_result ==
               bustools_sort(correct_result.res["bus"],
                             Join(OUT_DIR, <<"output", UNFILTERED_CODE, "bus">>),
                             TEMP_DIR, FALSE)
       IN  IF ~is_batch
           THEN /\ log' = log \o <<Ev("count", correct_result.cmd),
                                    Ev("count", sort_result.cmd)>>
                /\ loc' = [loc EXCEPT !.prev_result = sort_result.res]
                /\ results' = Updated(results,
                                      Prefixed("unfiltered",
                                               "bus_scs" :> sort_result.res["bus"]))
           ELSE UNCHANGED <<log, loc, results>>
    /\ pc' = "count_count"
    /\ UNCHANGED <<cfg, status>>

\* cm of count
CountCm(c) == Upper(c.technology) \in {"BULK", "SMARTSEQ2"}

\* quant of count
CountQuantFlag(c) == CountCm(c) /\ c.tcc

CountsDir == SubDir(OUT_DIR, UNFILTERED_COUNTS_DIR)

CountsPrefix(c) ==
    Join(CountsDir, <<IF c.tcc THEN TCC_PREFIX ELSE COUNTS_PREFIX>>)

CountCount ==
    /\ pc = "count_count"
    /\ \E c \in Free(cfg, {"tcc"}) :
        /\ cfg' = c
        /\ LET bus_result == loc.bus_result
               count_result ==
                   bustools_count(loc.prev_result["bus"], CountsPrefix(c), T2G,
                                  bus_result["ecmap"], bus_result["txnames"],
                                  c.tcc, c.tcc, CountCm(c), FALSE)
           IN  /\ log' = log
                         \o <<Ev("count", Py("make_directory", <<D(CountsDir)>>)),
                              Ev("count", count_result.cmd)>>
               /\ loc' = [loc EXCEPT !.count_result = count_result.res]
               /\ results' = Updated(results,
                                     Prefixed("unfiltered", count_result.res))
    /\ pc' = "count_quant"
    /\ UNCHANGED status

\* dict.get of a path: NoPath stands for None
Get(d, k) == IF Has(d, k) THEN d[k] ELSE NoPath

\* kallisto quant-tcc.  bus_result['saved_index'] raises KeyError when the
\* dictionary has no such key.
CountQuant ==
    /\ pc = "count_quant"
    /\ LET bus_result == loc.bus_result
           quant_dir == SubDir(OUT_DIR, UNFILTERED_QUANT_DIR)
           mkdir == Ev("count", Py("make_directory", <<D(quant_dir)>>))
           quant_result ==
               kallisto_quant_tcc(loc.count_result["mtx"],
                                  bus_result["saved_index"], bus_result["ecmap"],
                                  T2G, quant_dir, Get(bus_result, "flens"))
       IN  IF ~CountQuantFlag(cfg)
           THEN /\ pc' = "count_cellranger"
                /\ UNCHANGED <<log, results, status, cfg>>
           ELSE IF ~Has(bus_result, "saved_index")
           THEN /\ log' = Append(log, mkdir)
                /\ Raise("KeyError", {"cellranger", "filter", "report"})
                /\ UNCHANGED results
           ELSE /\ log' = log \o <<mkdir, Ev("count", quant_result.cmd)>>
                /\ results' = Updated(results,
                                      Prefixed("unfiltered", quant_result.res))
                /\ pc' = "count_cellranger"
                /\ UNCHANGED <<status, cfg>>
    /\ UNCHANGED loc

\* The cellranger conversion.  count_result['genes'] raises KeyError when
\* the matrix is a TCC matrix.
CountCellranger ==
    /\ pc = "count_cellranger"
    /\ \E c \in Free(cfg, {"cellranger"}) :
        LET count_result == loc.count_result
            cr_result ==
                matrix_to_cellranger(count_result["mtx"],
                                     count_result["barcodes"],
                                     count_result["genes"], T2G,
                                     SubDir(CountsDir, CELLRANGER_DIR))
        IN  IF ~c.cellranger
            THEN /\ cfg' = c
                 /\ pc' = "count_filter"
                 /\ UNCHANGED <<log, results, status>>
            ELSE IF ~Has(count_result, "genes")
            THEN /\ status' = "KeyError"
                 /\ pc' = "end"
                 /\ cfg' \in Free(c, {"filter", "report"})
                 /\ UNCHANGED <<log, results>>
            ELSE /\ cfg' = c
                 /\ log' = Append(log, Ev("count", cr_result.cmd))
                 /\ results' = Updated(results,
                                       Prefixed("unfiltered.cellranger",
                                                cr_result.res))
                 /\ pc' = "count_filter"
                 /\ UNCHANGED status
    /\ UNCHANGED loc

CountFilter ==
    /\ pc = "count_filter"
    /\ \E c \in Free(cfg, {"filter"}) :
        /\ cfg' = c
        /\ LET bus_result == loc.bus_result
               filtered ==
                   filter_with_bustools(
                       loc.prev_result["bus"], bus_result["ecmap"],
                       bus_result["txnames"], T2G,
                       Join(OUT_DIR, FILTER_WHITELIST_FILENAME),
                       Join(OUT_DIR, <<"output", FILTERED_CODE, "bus">>),
                       Join(SubDir(OUT_DIR, FILTERED_COUNTS_DIR),
                            <<IF c.tcc THEN TCC_PREFIX ELSE COUNTS_PREFIX>>),
                       c.tcc, FALSE, TEMP_DIR, TRUE, FALSE, FALSE)
           IN  IF c.filter = "bustools"
               THEN /\ log' = log \o filtered.events
                    /\ results' = Updated(results,
                                          Prefixed("filtered", filtered.res))
               ELSE UNCHANGED <<log, results>>
    /\ pc' = "count_report"
    /\ UNCHANGED <<status, loc>>

\* render_report of the report module
render_report(args, nb_path, html_path) ==
    [cmd |-> Py("render_report", args \o <<P(nb_path), P(html_path)>>),
     res |-> ("report_notebook" :> nb_path) @@ ("report_html" :> html_path)]

\* The statistics and the report.  inspect_result is unbound when inspect
\* was not run.
CountReport ==
    /\ pc = "count_report"
    /\ \E c \in Free(cfg, {"report"}) :
        /\ cfg' = c
        /\ LET stats_path == Join(OUT_DIR, KB_INFO_FILENAME)
               save == Ev("count", Py("STATS.save", <<P(stats_path)>>))
               count_result == loc.count_result
               report_result ==
                   render_report(<<P(stats_path), P(loc.bus_result["info"]),
                                   P(loc.inspect_result["inspect"]),
                                   P(count_result["mtx"])>>,
                                 Join(OUT_DIR, REPORT_NOTEBOOK_FILENAME),
                                 Join(OUT_DIR, REPORT_HTML_FILENAME))
               with_stats == Updated(results, "stats" :> stats_path)
           IN  IF ~c.report
               THEN /\ log' = Append(log, save)
                    /\ results' = with_stats
                    /\ status' = "done"
               ELSE IF loc.inspect_result = EmptyDict
               THEN /\ log' = Append(log, save)
                    /\ results' = with_stats
                    /\ status' = "UnboundLocalError"
               ELSE /\ log' = log \o <<save, Ev("count", report_result.cmd)>>
                    /\ results' = Updated(with_stats,
                                          Prefixed("unfiltered", report_result.res))
                    /\ status' = "done"
    /\ pc' = "end"
    /\ UNCHANGED loc

-----------------------------------------------------------------------------
(* count_velocity                                                          *)

BusDefault ==
    ("bus" :> Join(OUT_DIR, BUS_FILENAME))
    @@ ("ecmap" :> Join(OUT_DIR, ECMAP_FILENAME))
    @@ ("txnames" :> Join(OUT_DIR, TXNAMES_FILENAME))
    @@ ("info" :> Join(OUT_DIR, KALLISTO_INFO_FILENAME))

VelocityBegin ==
    /\ pc = "start"
    /\ cfg.fn = "count_velocity"
    /\ loc' = [loc EXCEPT !.bus_result = BusDefault]
    /\ pc' = IF MustRun(cfg, BusDefault)
             THEN IF cfg.nidx > 1 THEN "split_part" ELSE "velocity_bus"
             ELSE "velocity_sort"
    /\ log' = log \o <<Ev("count_velocity", Py("make_directory", <<D(OUT_DIR)>>))>>
    /\ UNCHANGED <<cfg, status, results>>

\* kallisto bus with a single index; fastqs always goes through
\* stream_fastqs.
VelocityBus ==
    /\ pc = "velocity_bus"
    /\ LET fastqs == [batch |-> FALSE,
                      list |-> stream_fastqs(Iterate(loc.fastqs), TEMP_DIR),
                      path |-> NoPath]
           bus == kallisto_bus(BusFastqs(fastqs), IndexPath(1), cfg.technology,
                               OUT_DIR, FALSE, FALSE, FALSE)
       IN  /\ log' = log
                     \o stream_events("stream_fastqs", Iterate(loc.fastqs), TEMP_DIR)
                     \o <<Ev("count_velocity", bus.cmd)>>
           /\ loc' = [loc EXCEPT !.fastqs = fastqs, !.bus_result = bus.res]
    /\ pc' = "velocity_sort"
    /\ UNCHANGED <<cfg, status, results>>

VelocitySort ==
    /\ pc = "velocity_sort"
    /\ LET bus_result == loc.bus_result
           sort_result ==
               bustools_sort(
                   bus_result["bus"],
                   Join(TEMP_DIR,
                        update_filename(basename(bus_result["bus"]), SORT_CODE)),
                   TEMP_DIR, FALSE)
       IN  /\ results' = Updated(results, Prefixed("unfiltered", bus_result))
           /\ log' = Append(log, Ev("count_velocity", sort_result.cmd))
           /\ loc' = [loc EXCEPT !.sort_result = sort_result.res]
    /\ pc' = "velocity_whitelist"
    /\ UNCHANGED <<cfg, status>>

VelocityWhitelist ==
    /\ pc = "velocity_whitelist"
    /\ \E c \in Free(cfg, {"whitelist_path"}) :
        /\ cfg' = c
        /\ LET w == copy_or_create_whitelist(c.technology,
                                             loc.sort_result["bus"], OUT_DIR)
           IN  IF c.whitelist_path = NoPath
               THEN /\ log' = log \o w.events
                    /\ loc' = [loc EXCEPT !.whitelist_path = w.path]
                    /\ results' =
                           Updated(results,
                                   Prefixed("unfiltered", "whitelist" :> w.path))
               ELSE /\ loc' = [loc EXCEPT !.whitelist_path = c.whitelist_path]
                    /\ UNCHANGED <<log, results>>
    /\ pc' = "velocity_inspect"
    /\ UNCHANGED status

VelocityInspect ==
    /\ pc = "velocity_inspect"
    /\ \E c \in Free(cfg, {"inspect"}) :
        /\ cfg' = c
        /\ LET inspect_result ==
                   bustools_inspect(loc.sort_result["bus"],
                                    Join(OUT_DIR, INSPECT_FILENAME),
                                    loc.whitelist_path)
           IN  IF c.inspect
               THEN /\ log' = Append(log, Ev("count_velocity", inspect_result.cmd))
                    /\ loc' = [loc EXCEPT !.inspect_result = inspect_result.res]
                    /\ results' =
                           Updated(results,
                                   Prefixed("unfiltered", inspect_result.res))
               ELSE UNCHANGED <<log, loc, results>>
    /\ pc' = "velocity_correct"
    /\ UNCHANGED status

\* Barcode correction and the sort after it; sort2_result is kept in
\* prev_result.
VelocityCorrect ==
    /\ pc = "velocity_correct"
    /\ LET sort_result == loc.sort_result
           correct_result ==
               bustools_correct(
                   sort_result["bus"],
                   Join(TEMP_DIR,
                        update_filename(basename(sort_result["bus"]), CORRECT_CODE)),
                   loc.whitelist_path)
           sort2_result ==
               bustools_sort(correct_result.res["bus"],
                             Join(OUT_DIR, <<"output", UNFILTERED_CODE, "bus">>),
                             TEMP_DIR, FALSE)
       IN  /\ log' = log
                     \o <<Ev("count_velocity", correct_result.cmd),
                          Ev("count_velocity", sort2_result.cmd),
                          Ev("count_velocity",
                             Py("make_directory", <<D(CountsDir)>>))>>
           /\ loc' = [loc EXCEPT !.prev_result = sort2_result.res, !.k = 1]
           /\ results' = Updated(results,
                                 Prefixed("unfiltered",
                                          "bus_scs" :> sort2_result.res["bus"]))
    /\ pc' = "velocity_prefix"
    /\ UNCHANGED <<cfg, status>>

prefixes == <<BUS_CDNA_PREFIX, BUS_INTRON_PREFIX>>

\* The capture lists of the caller.
CDNA_T2C == UserPath(<<"cdna_t2c", "txt">>)
INTRON_T2C == UserPath(<<"intron_t2c", "txt">>)

\* (variant: each prefix with the capture list of its own name)
prefix_to_t2c_Unswapped ==
    (BUS_CDNA_PREFIX :> CDNA_T2C) @@ (BUS_INTRON_PREFIX :> INTRON_T2C)

\* The prefix and t2cs are swapped because bustools capture is called with
\* the --complement flag.
prefix_to_t2c ==
    (BUS_CDNA_PREFIX :> INTRON_T2C) @@ (BUS_INTRON_PREFIX :> CDNA_T2C)

\* One iteration of the loop over the prefixes: capture, sort, inspect,
\* count and the cellranger conversion.
VelocityPrefix ==
    /\ pc = "velocity_prefix"
    /\ loc.k <= Len(prefixes)
    /\ \E c \in Free(cfg, IF loc.k = 1 THEN {"tcc", "cellranger"} ELSE {}) :
        /\ cfg' = c
        /\ LET f == "count_velocity"
               prefix == prefixes[loc.k]
               t2c_path == prefix_to_t2c[prefix]
               bus_result == loc.bus_result
               capture_result ==
                   bustools_capture(loc.prev_result["bus"],
                                    Join(TEMP_DIR, <<prefix, "bus">>), t2c_path,
                                    bus_result["ecmap"], bus_result["txnames"],
                                    "transcripts", TRUE)
               sort_result ==
                   bustools_sort(capture_result.res["bus"],
                                 Join(OUT_DIR, <<prefix, UNFILTERED_CODE, "bus">>),
                                 TEMP_DIR, FALSE)
               inspect_result ==
                   bustools_inspect(sort_result.res["bus"],
                                    Join(OUT_DIR,
                                         update_filename(INSPECT_FILENAME, prefix)),
                                    loc.whitelist_path)
               count_result ==
                   bustools_count(sort_result.res["bus"],
                                  Join(CountsDir, <<prefix>>), T2G,
                                  bus_result["ecmap"], bus_result["txnames"],
                                  c.tcc, c.tcc, FALSE, FALSE)
               cr_result ==
                   matrix_to_cellranger(
                       count_result.res["mtx"], count_result.res["barcodes"],
                       count_result.res["genes"], T2G,
                       SubDir(CountsDir, CELLRANGER_DIR \o "_" \o prefix))
               section == "unfiltered." \o prefix
           IN  /\ log' = log
                         \o <<Ev(f, capture_result.cmd), Ev(f, sort_result.cmd)>>
                         \o IfArg(c.inspect, <<Ev(f, inspect_result.cmd)>>)
                         \o <<Ev(f, count_result.cmd)>>
                         \o IfArg(c.cellranger /\ ~c.tcc, <<Ev(f, cr_result.cmd)>>)
                         \o IfArg(c.cellranger /\ c.tcc,
                                  <<Ev(f, Py("logger.warning", <<S("TCC matrices can not be converted to cellranger-compatible format.")>>))>>)
               /\ results' =
                      Updated(results,
                              Prefixed(section, sort_result.res)
                              @@ (IF c.inspect
                                  THEN Prefixed(section, inspect_result.res)
                                  ELSE EmptyDict)
                              @@ Prefixed(section, count_result.res)
                              @@ (IF c.cellranger /\ ~c.tcc
                                  THEN Prefixed(section \o ".cellranger",
                                                cr_result.res)
                                  ELSE EmptyDict))
               /\ loc' = [loc EXCEPT !.k = @ + 1,
                                     !.sort_result = sort_result.res,
                                     !.count_result = count_result.res]
               /\ pc' = IF loc.k < Len(prefixes)
                        THEN "velocity_prefix" ELSE "velocity_filter"
    /\ UNCHANGED status

\* The filtered counterpart of one iteration over the prefixes.
FilteredPrefix(c, bus_result, filtered_bus, prefix) ==
    LET f == "count_velocity"
        filtered_counts_dir == SubDir(OUT_DIR, FILTERED_COUNTS_DIR)
        capture_result ==
            bustools_capture(filtered_bus, Join(TEMP_DIR, <<prefix, "bus">>),
                             prefix_to_t2c[prefix],
                             bus_result["ecmap"], bus_result["txnames"],
                             "transcripts", TRUE)
        sort_result ==
            bustools_sort(capture_result.res["bus"],
                          Join(OUT_DIR, <<prefix, FILTERED_CODE, "bus">>),
                          TEMP_DIR, FALSE)
        count_result ==
            bustools_count(sort_result.res["bus"],
                           Join(filtered_counts_dir, <<prefix>>), T2G,
                           bus_result["ecmap"], bus_result["txnames"],
                           c.tcc, c.tcc, FALSE, FALSE)
        cr_result ==
            matrix_to_cellranger(
                count_result.res["mtx"], count_result.res["barcodes"],
                count_result.res["genes"], T2G,
                SubDir(filtered_counts_dir, CELLRANGER_DIR \o "_" \o prefix))
    IN  [events |->
            <<Ev(f, capture_result.cmd), Ev(f, sort_result.cmd),
              Ev(f, Py("make_directory", <<D(filtered_counts_dir)>>)),
              Ev(f, count_result.cmd)>>
            \o IfArg(c.cellranger /\ ~c.tcc, <<Ev(f, cr_result.cmd)>>)
            \o IfArg(c.cellranger /\ c.tcc,
                     <<Ev(f, Py("logger.warning", <<S("TCC matrices can not be converted to cellranger-compatible format.")>>))>>),
         res |->
            Prefixed("filtered." \o prefix, sort_result.res)
            @@ Prefixed("filtered." \o prefix, count_result.res)
            @@ (IF c.cellranger /\ ~c.tcc
                THEN Prefixed("unfiltered." \o prefix \o ".cellranger",
                              cr_result.res)
                ELSE EmptyDict)]

VelocityFilter ==
    /\ pc = "velocity_filter"
    /\ \E c \in Free(cfg, {"filter"}) :
        /\ cfg' = c
        /\ LET bus_result == loc.bus_result
               filtered ==
                   filter_with_bustools(
                       loc.prev_result["bus"], bus_result["ecmap"],
                       bus_result["txnames"], T2G,
                       Join(OUT_DIR, FILTER_WHITELIST_FILENAME),
                       Join(OUT_DIR, <<"output", FILTERED_CODE, "bus">>),
                       NoPath, FALSE, FALSE, TEMP_DIR, FALSE, FALSE, FALSE)
               first == FilteredPrefix(c, bus_result, filtered.res["bus_scs"],
                                       prefixes[1])
               second == FilteredPrefix(c, bus_result, filtered.res["bus_scs"],
                                        prefixes[2])
           IN  IF c.filter = "bustools"
               THEN /\ log' = log \o filtered.events \o first.events
                                  \o second.events
                    /\ results' =
                           Updated(Updated(Updated(results,
                                                   Prefixed("filtered",
                                                            filtered.res)),
                                           first.res),
                                   second.res)
               ELSE UNCHANGED <<log, results>>
    /\ pc' = "velocity_report"
    /\ UNCHANGED <<status, loc>>

\* The statistics and the reports.  unfiltered_results['inspect'] raises
\* KeyError when inspect was not run.
VelocityReport ==
    /\ pc = "velocity_report"
    /\ \E c \in Free(cfg, {"report"}) :
        /\ cfg' = c
        /\ LET f == "count_velocity"
               stats_path == Join(OUT_DIR, KB_INFO_FILENAME)
               save == Ev(f, Py("STATS.save", <<P(stats_path)>>))
               with_stats == Updated(results, "stats" :> stats_path)
               report_result ==
                   render_report(<<P(stats_path), P(loc.bus_result["info"]),
                                   P(results["unfiltered.inspect"])>>,
                                 Join(OUT_DIR, REPORT_NOTEBOOK_FILENAME),
                                 Join(OUT_DIR, REPORT_HTML_FILENAME))
               PrefixReport(prefix) ==
                   render_report(
                       <<P(stats_path), P(loc.bus_result["info"]),
                         P(results["unfiltered." \o prefix \o ".inspect"]),
                         P(results["unfiltered." \o prefix \o ".mtx"])>>,
                       Join(OUT_DIR,
                            update_filename(REPORT_NOTEBOOK_FILENAME, prefix)),
                       Join(OUT_DIR,
                            update_filename(REPORT_HTML_FILENAME, prefix)))
           IN  IF ~c.report
               THEN /\ log' = Append(log, save)
                    /\ results' = with_stats
                    /\ status' = "done"
               ELSE IF ~Has(results, "unfiltered.inspect")
               THEN /\ log' = Append(log, save)
                    /\ results' = with_stats
                    /\ status' = "KeyError"
               ELSE /\ log' = log
                              \o <<save, Ev(f, report_result.cmd),
                                   Ev(f, PrefixReport(prefixes[1]).cmd),
                                   Ev(f, PrefixReport(prefixes[2]).cmd)>>
                    /\ results' =
                           Updated(with_stats,
                                   Prefixed("unfiltered", report_result.res)
                                   @@ Prefixed("unfiltered." \o prefixes[1],
                                               PrefixReport(prefixes[1]).res)
                                   @@ Prefixed("unfiltered." \o prefixes[2],
                                               PrefixReport(prefixes[2]).res))
                    /\ status' = "done"
    /\ pc' = "end"
    /\ UNCHANGED loc

-----------------------------------------------------------------------------
(* count_smartseq3                                                         *)

Smartseq3BusDefault ==
    BusDefault
    @@ ("flens" :> Join(OUT_DIR, FLENS_FILENAME))
    @@ ("saved_index" :> Join(OUT_DIR, SAVED_INDEX_FILENAME))

Smartseq3Begin ==
    /\ pc = "start"
    /\ cfg.fn = "count_smartseq3"
    /\ loc' = [loc EXCEPT !.bus_result = Smartseq3BusDefault]
    /\ pc' = IF MustRun(cfg, Smartseq3BusDefault)
             THEN IF cfg.nidx > 1 THEN "split_part" ELSE "s3_bus"
             ELSE "s3_sort"
    /\ log' = log \o <<Ev("count_smartseq3", Py("make_directory", <<D(OUT_DIR)>>))>>
    /\ UNCHANGED <<cfg, status, results>>

Smartseq3Bus ==
    /\ pc = "s3_bus"
    /\ LET is_batch == cfg.fastqs.batch
           new_batch == stream_batch(loc.fastqs.path, TEMP_DIR, loc.ntemp)
           fastqs ==
               IF is_batch
               THEN [batch |-> TRUE, list |-> <<>>, path |-> new_batch.path]
               ELSE [batch |-> FALSE,
                     list |-> stream_fastqs(loc.fastqs.list, TEMP_DIR),
                     path |-> NoPath]
           bus == kallisto_bus(BusFastqs(fastqs), IndexPath(1), "SMARTSEQ3",
                               OUT_DIR, FALSE, FALSE, TRUE)
       IN  /\ log' = log
                     \o (IF is_batch THEN new_batch.events
                         ELSE stream_events("stream_fastqs", loc.fastqs.list, TEMP_DIR))
                     \o <<Ev("count_smartseq3", bus.cmd)>>
           /\ loc' = [loc EXCEPT !.fastqs = fastqs,
                                 !.ntemp = IF is_batch THEN @ + 1 ELSE @,
                                 !.bus_result = bus.res]
    /\ pc' = "s3_sort"
    /\ UNCHANGED <<cfg, status, results>>

\* The first sort and the whitelist, which is never given.
Smartseq3Sort ==
    /\ pc = "s3_sort"
    /\ LET bus_result == loc.bus_result
           sort_result ==
               bustools_sort(
                   bus_result["bus"],
                   Join(TEMP_DIR,
                        update_filename(basename(bus_result["bus"]), SORT_CODE)),
                   TEMP_DIR, FALSE)
           w == copy_or_create_whitelist("SMARTSEQ3", sort_result.res["bus"],
                                         OUT_DIR)
       IN  /\ results' = Updated(Updated(results,
                                         Prefixed("unfiltered", bus_result)),
                                 Prefixed("unfiltered", "whitelist" :> w.path))
           /\ log' = Append(log, Ev("count_smartseq3", sort_result.cmd))
                     \o w.events
           /\ loc' = [loc EXCEPT !.sort_result = sort_result.res,
                                 !.prev_result = sort_result.res,
                                 !.whitelist_path = w.path]
    /\ pc' = "s3_inspect"
    /\ UNCHANGED <<cfg, status>>

Smartseq3Inspect ==
    /\ pc = "s3_inspect"
    /\ \E c \in Free(cfg, {"inspect"}) :
        /\ cfg' = c
        /\ LET inspect_result ==
                   bustools_inspect(loc.prev_result["bus"],
                                    Join(OUT_DIR, INSPECT_FILENAME),
                                    loc.whitelist_path)
           IN  IF c.inspect
               THEN /\ log' = Append(log, Ev("count_smartseq3", inspect_result.cmd))
                    /\ loc' = [loc EXCEPT !.inspect_result = inspect_result.res]
                    /\ results' =
                           Updated(results,
                                   Prefixed("unfiltered", inspect_result.res))
               ELSE UNCHANGED <<log, loc, results>>
    /\ pc' = "s3_correct"
    /\ UNCHANGED status

Smartseq3Correct ==
    /\ pc = "s3_correct"
    /\ LET prev_result == loc.prev_result
           correct_result ==
               bustools_correct(
                   prev_result["bus"],
                   Join(TEMP_DIR,
                        update_filename(basename(prev_result["bus"]), CORRECT_CODE)),
                   loc.whitelist_path)
           sort_result ==
               bustools_sort(correct_result.res["bus"],
                             Join(OUT_DIR, <<"output", UNFILTERED_CODE, "bus">>),
                             TEMP_DIR, FALSE)
       IN  /\ log' = log \o <<Ev("count_smartseq3", correct_result.cmd),
                               Ev("count_smartseq3", sort_result.cmd)>>
           /\ loc' = [loc EXCEPT !.prev_result = sort_result.res]
           /\ results' = Updated(results,
                                 Prefixed("unfiltered",
                                          "bus_scs" :> sort_result.res["bus"]))
    /\ pc' = "s3_capture"
    /\ UNCHANGED <<cfg, status>>

\* write_smartseq3_capture: the file holds one line, the capture sequence
write_smartseq3_capture(capture_path) ==
    Py("write_smartseq3_capture", <<P(capture_path), S("T*32")>>)

Smartseq3InternalBus == Join(OUT_DIR, Glued("output", INTERNAL_SUFFIX, "bus"))
Smartseq3UmiBus == Join(OUT_DIR, Glued("output", UMI_SUFFIX, "bus"))

\* The capture file and the capture of the internal and the UMI records.
Smartseq3Capture ==
    /\ pc = "s3_capture"
    /\ LET f == "count_smartseq3"
           capture_path == Join(OUT_DIR, CAPTURE_FILENAME)
           capture_internal_result ==
               bustools_capture(loc.prev_result["bus"], Smartseq3InternalBus,
                                capture_path, NoPath, NoPath, "umis", FALSE)
           capture_umi_result ==
               bustools_capture(loc.prev_result["bus"], Smartseq3UmiBus,
                                capture_path, NoPath, NoPath, "umis", TRUE)
       IN  /\ log' = log
                     \o <<Ev(f, write_smartseq3_capture(capture_path)),
                          Ev(f, capture_internal_result.cmd),
                          Ev(f, capture_umi_result.cmd)>>
           /\ results' =
                  Updated(results,
                          ("unfiltered.bus" \o INTERNAL_SUFFIX
                               :> capture_internal_result.res["bus"])
                          @@ ("unfiltered.bus" \o UMI_SUFFIX
                               :> capture_umi_result.res["bus"]))
    /\ pc' = "s3_count"
    /\ UNCHANGED <<cfg, status, loc>>

\* {f'{key}{suffix}': value for key, value in d.items()} under a section
Suffixed(section, suffix, d) ==
    LET pairs == {<<section \o "." \o k \o suffix, d[k]>> : k \in DOMAIN d}
    IN  [kk \in {pr[1] : pr \in pairs} |->
            (CHOOSE pr \in pairs : pr[1] = kk)[2]]

Smartseq3CountsDir(suffix) == SubDir(OUT_DIR, UNFILTERED_COUNTS_DIR \o suffix)

Smartseq3CountInternal(c, bus_result) ==
    bustools_count(Smartseq3InternalBus,
                   Join(Smartseq3CountsDir(INTERNAL_SUFFIX),
                        <<IF c.tcc THEN TCC_PREFIX ELSE COUNTS_PREFIX>>),
                   T2G, bus_result["ecmap"], bus_result["txnames"],
                   c.tcc, c.tcc, TRUE, FALSE)

Smartseq3CountUmi(c, bus_result) ==
    bustools_count(Smartseq3UmiBus,
                   Join(Smartseq3CountsDir(UMI_SUFFIX),
                        <<IF c.tcc THEN TCC_PREFIX ELSE COUNTS_PREFIX>>),
                   T2G, bus_result["ecmap"], bus_result["txnames"],
                   c.tcc, c.tcc, FALSE, TRUE)

\* Count each of the two captured BUS files.
Smartseq3Count ==
    /\ pc = "s3_count"
    /\ \E c \in Free(cfg, {"tcc"}) :
        /\ cfg' = c
        /\ LET f == "count_smartseq3"
               count_internal_result == Smartseq3CountInternal(c, loc.bus_result)
               count_umi_result == Smartseq3CountUmi(c, loc.bus_result)
           IN  /\ log' = log
                         \o <<Ev(f, Py("make_directory",
                                       <<D(Smartseq3CountsDir(INTERNAL_SUFFIX))>>)),
                              Ev(f, count_internal_result.cmd),
                              Ev(f, Py("make_directory",
                                       <<D(Smartseq3CountsDir(UMI_SUFFIX))>>)),
                              Ev(f, count_umi_result.cmd)>>
               /\ results' =
                      Updated(Updated(results,
                                      Suffixed("unfiltered", INTERNAL_SUFFIX,
                                               count_internal_result.res)),
                              Suffixed("unfiltered", UMI_SUFFIX,
                                       count_umi_result.res))
    /\ pc' = "s3_quant"
    /\ UNCHANGED <<status, loc>>

Smartseq3QuantDir(suffix) == SubDir(OUT_DIR, UNFILTERED_QUANT_DIR \o suffix)

\* kallisto quant-tcc on each count matrix, then the statistics.
\* bus_result['saved_index'] and bus_result['flens'] raise KeyError when the
\* dictionary has no such key.
Smartseq3Quant ==
    /\ pc = "s3_quant"
    /\ LET f == "count_smartseq3"
           bus_result == loc.bus_result
           count_internal_result == Smartseq3CountInternal(cfg, bus_result)
           count_umi_result == Smartseq3CountUmi(cfg, bus_result)
           mkdir_internal ==
               Ev(f, Py("make_directory",
                        <<D(Smartseq3QuantDir(INTERNAL_SUFFIX))>>))
           quant_internal_result ==
               kallisto_quant_tcc(count_internal_result.res["mtx"],
                                  bus_result["saved_index"], bus_result["ecmap"],
                                  T2G, Smartseq3QuantDir(INTERNAL_SUFFIX),
                                  bus_result["flens"])
           quant_umi_result ==
               kallisto_quant_tcc(count_umi_result.res["mtx"],
                                  bus_result["saved_index"], bus_result["ecmap"],
                                  T2G, Smartseq3QuantDir(UMI_SUFFIX), NoPath)
           stats_path == Join(OUT_DIR, KB_INFO_FILENAME)
           save == Ev(f, Py("STATS.save", <<P(stats_path)>>))
       IN  IF ~cfg.tcc
           THEN /\ log' = Append(log, save)
                /\ results' = Updated(results, "stats" :> stats_path)
                /\ status' = "done"
           ELSE IF ~Has(bus_result, "saved_index") \/ ~Has(bus_result, "flens")
           THEN /\ log' = Append(log, mkdir_internal)
                /\ status' = "KeyError"
                /\ UNCHANGED results
           ELSE /\ log' = log
                          \o <<mkdir_internal, Ev(f, quant_internal_result.cmd),
                               Ev(f, Py("make_directory",
                                        <<D(Smartseq3QuantDir(UMI_SUFFIX))>>)),
                               Ev(f, quant_umi_result.cmd),
                               save>>
                /\ results' =
                       Updated(Updated(Updated(results,
                                               Suffixed("unfiltered",
                                                        INTERNAL_SUFFIX,
                                                        quant_internal_result.res)),
                                       Suffixed("unfiltered", UMI_SUFFIX,
                                                quant_umi_result.res)),
                               "stats" :> stats_path)
                /\ status' = "done"
    /\ pc' = "end"
    /\ UNCHANGED <<cfg, loc>>

-----------------------------------------------------------------------------
(* count_smartseq                                                          *)

\* The argument checks, which come before anything is created.
SmartseqBegin ==
    /\ pc = "start"
    /\ cfg.fn = "count_smartseq"
    /\ IF cfg.nidx > 1
       THEN /\ Raise("Exception: multiple indices", {})
            /\ UNCHANGED log
       ELSE IF \E j \in 1..Len(cfg.pairs) :
                  \E m \in 1..Len(cfg.pairs[j]) : IsRemote(cfg.pairs[j][m])
       THEN /\ Raise("Exception: FASTQ streaming", {})
            /\ UNCHANGED log
       ELSE /\ log' = Append(log, Ev("count_smartseq",
                                     Py("make_directory", <<D(OUT_DIR)>>)))
            /\ pc' = "ss_pseudo"
            /\ UNCHANGED <<cfg, status>>
    /\ UNCHANGED <<loc, results>>

PseudoDefault ==
    ("mtx" :> Join(OUT_DIR, ABUNDANCE_FILENAME))
    @@ ("ecmap" :> Join(OUT_DIR, ECMAP_FILENAME))
    @@ ("cells" :> Join(OUT_DIR, CELLS_FILENAME))
    @@ ("txnames" :> Join(OUT_DIR, TXNAMES_FILENAME))
    @@ ("info" :> Join(OUT_DIR, KALLISTO_INFO_FILENAME))

\* write_smartseq_batch: one line per cell, the cell id and its two FASTQs
write_smartseq_batch(fastq_pairs, out_path) ==
    [cmd |-> Py("write_smartseq_batch",
                [j \in 1..(2 * Len(fastq_pairs)) |->
                    P(fastq_pairs[(j + 1) \div 2][2 - (j % 2)].path)]
                \o <<P(out_path)>>),
     res |-> ("batch" :> out_path)]

\* The batch file and kallisto pseudo, unless its outputs exist already.
SmartseqPseudo ==
    /\ pc = "ss_pseudo"
    /\ LET f == "count_smartseq"
           batch_result == write_smartseq_batch(cfg.pairs,
                                                Join(OUT_DIR, BATCH_FILENAME))
           pseudo_result == kallisto_pseudo(batch_result.res["batch"],
                                            IndexPath(1), OUT_DIR)
       IN  IF MustRun(cfg, PseudoDefault)
           THEN /\ log' = log \o <<Ev(f, batch_result.cmd),
                                    Ev(f, pseudo_result.cmd)>>
                /\ loc' = [loc EXCEPT !.bus_result = pseudo_result.res]
                /\ results' = Updated(Updated(results, batch_result.res),
                                      pseudo_result.res)
           ELSE /\ loc' = [loc EXCEPT !.bus_result = PseudoDefault]
                /\ results' = Updated(results, PseudoDefault)
                /\ UNCHANGED log
    /\ pc' = "ss_genes"
    /\ UNCHANGED <<cfg, status>>

\* genes.txt is written from transcripts.txt; then the statistics.
SmartseqGenes ==
    /\ pc = "ss_genes"
    /\ LET f == "count_smartseq"
           pseudo_result == loc.bus_result
           genes_path == Join(OUT_DIR, GENES_FILENAME)
           stats_path == Join(OUT_DIR, KB_INFO_FILENAME)
       IN  /\ log' = log
                     \o <<Ev(f, Py("convert_transcripts_to_genes",
                                   <<P(pseudo_result["txnames"]), S(T2G),
                                     P(genes_path)>>)),
                          Ev(f, Py("STATS.save", <<P(stats_path)>>))>>
           /\ results' = Updated(results,
                                 ("genes" :> genes_path)
                                 @@ ("stats" :> stats_path))
    /\ status' = "done"
    /\ pc' = "end"
    /\ UNCHANGED <<cfg, loc>>

-----------------------------------------------------------------------------

Next ==
    \/ SplitPart \/ SplitMash \/ SplitMerge
    \/ CountBegin \/ CountBus \/ CountSort \/ CountWhitelist \/ CountFB
    \/ CountInspect \/ CountCorrect \/ CountCount \/ CountQuant
    \/ CountCellranger \/ CountFilter \/ CountReport
    \/ VelocityBegin \/ VelocityBus \/ VelocitySort \/ VelocityWhitelist
    \/ VelocityInspect \/ VelocityCorrect \/ VelocityPrefix
    \/ VelocityFilter \/ VelocityReport
    \/ Smartseq3Begin \/ Smartseq3Bus \/ Smartseq3Sort \/ Smartseq3Inspect
    \/ Smartseq3Correct \/ Smartseq3Capture \/ Smartseq3Count
    \/ Smartseq3Quant
    \/ SmartseqBegin \/ SmartseqPseudo \/ SmartseqGenes

Spec == Init /\ [][Next]_vars

-----------------------------------------------------------------------------
(* Reading the log.                                                        *)

Prog(e) == e.cmd[1].s
Sub(e) == e.cmd[2].s

\* Is the entry a call of the tool's subcommand?
Runs(e, prog, sub) == Prog(e) = prog /\ Sub(e) = sub

HasOpt(e, opt) == \E j \in 1..Len(e.cmd) : e.cmd[j] = S(opt)

\* the path that follows an option
OptPath(e, opt) ==
    LET j == CHOOSE j \in 1..Len(e.cmd) : e.cmd[j] = S(opt)
    IN  e.cmd[j + 1].p

\* the output (-o) and the input (the last argument) of a bustools call
Out(e) == OptPath(e, "-o")
Input(e) == e.cmd[Len(e.cmd)].p

\* the positions in the log of the calls of a subcommand
Calls(prog, sub) == {j \in 1..Len(log) : Runs(log[j], prog, sub)}

\* a file operation of the coordinator and its arguments
IsPy(e, name) == Runs(e, "py", name)
PyArg(e, j) == e.cmd[j + 2].p

Moved(e, src, dst) ==
    IsPy(e, "move_file") /\ PyArg(e, 1) = src /\ PyArg(e, 2) = dst

Finished == pc = "end"

-----------------------------------------------------------------------------
(* The stages of count.                                                    *)

\* the calls count itself makes of the BUS-to-BUS stages and of bustools count
CountStages ==
    LET Stage(e) ==
            /\ e.caller = "count"
            /\ Prog(e) = "bustools"
            /\ Sub(e) \in {"sort", "project", "correct", "count"}
    IN  SelectSeq(log, Stage)

SubsOf(stages) == [j \in 1..Len(stages) |-> Sub(stages[j])]

\* every stage reads what the stage before it wrote
Chained(stages) ==
    \A j \in 2..Len(stages) : Input(stages[j]) = Out(stages[j - 1])

UnfilteredBus == Join(OUT_DIR, <<"output", "unfiltered", "bus">>)

\* C1: a run of count on a list of FASTQs calls bustools sort, correct,
\* sort and count in this order (with project and one more sort in front of
\* correct when FB is set); correct reads the output of the most recent
\* sort, the second sort reads the output of correct and writes
\* output.unfiltered.bus in out_dir, and bustools count reads that file.
C1_StageOrder ==
    (cfg.fn = "count" /\ ~cfg.fastqs.batch /\ Finished) =>
        LET st == CountStages
        IN  /\ SubsOf(st) = IF cfg.FB
                            THEN <<"sort", "project", "sort", "correct",
                                   "sort", "count">>
                            ELSE <<"sort", "correct", "sort", "count">>
            /\ Chained(st)
            /\ Input(st[Len(st)]) = UnfilteredBus

C1_Witness ==
    /\ cfg.fn = "count" /\ ~cfg.fastqs.batch /\ Finished
    /\ cfg.FB /\ cfg.nidx > 1 /\ cfg.filter = "bustools"
    /\ status = "done"
    /\ Len(CountStages) = 6

-----------------------------------------------------------------------------
(* kallisto_bus_split                                                      *)

\* the directory of shard i, counted from 0
PartDir(i) == <<"tmp", "bus_part" \o ToString(i)>>

PartBus(i) == Join(PartDir(i), <<"output", "bus">>)

\* Before position m of the log shard i was pseudoaligned into its own
\* directory, its output.bus sorted by flag and replaced by the sorted file.
ShardDone(i, m) ==
    \E b, t, v \in 1..(m - 1) :
        /\ b < t /\ t < v
        /\ Runs(log[b], "kallisto", "bus")
        /\ OptPath(log[b], "-o") = Dir(PartDir(i))
        /\ log[b].cmd[4] = S(IndexPath(i + 1))
        /\ HasOpt(log[b], "--num") /\ HasOpt(log[b], "--kmer")
        /\ Runs(log[t], "bustools", "sort")
        /\ HasOpt(log[t], "--flags")
        /\ Input(log[t]) = PartBus(i)
        /\ Moved(log[v], Out(log[t]), PartBus(i))
        /\ Out(log[t]) # PartBus(i)

\* the directories handed to bustools mash
MashDirs(e) == [j \in 1..(Len(e.cmd) - 4) |-> e.cmd[j + 4].p]

\* Did kallisto_bus_split run to its end?
SplitReturned == \E j \in 1..Len(log) : Runs(log[j], "bustools", "merge")

\* C3: bustools mash is called at most once, and exactly once by a finished
\* kallisto_bus_split; when it is called every shard has been pseudoaligned
\* with --num and --kmer into its own directory bus_part{i}, sorted with
\* --flags and replaced by the sorted file; mash gets the shard directories
\* in index order.
C3_MashAfterAllShards ==
    /\ Cardinality(Calls("bustools", "mash")) <= 1
    /\ SplitReturned => Cardinality(Calls("bustools", "mash")) = 1
    /\ \A m \in Calls("bustools", "mash") :
          /\ \A i \in 0..(cfg.nidx - 1) : ShardDone(i, m)
          /\ MashDirs(log[m]) = [j \in 1..cfg.nidx |-> Dir(PartDir(j - 1))]

C3_Witness ==
    /\ Finished /\ cfg.nidx = MaxIdx /\ MaxIdx > 1
    /\ Cardinality(Calls("bustools", "mash")) = 1
    /\ cfg.fn = "count_velocity"

MashedBus == Join(OUT_DIR, <<"mashed", "bus">>)

\* C4: when bustools merge is called, the mashed BUS file has been sorted
\* with --flags after mash and replaced by the sorted file, and merge reads
\* it; after merge the merged BUS file and the merged ecmap are moved to
\* out_dir/output.bus and out_dir/matrix.ec, which are the 'bus' and 'ecmap'
\* entries of the dictionary kallisto_bus_split returns.
C4_MergeAfterSortedMash ==
    \A g \in Calls("bustools", "merge") :
        /\ \E m, t, v \in 1..(g - 1) :
              /\ m < t /\ t < v
              /\ Runs(log[m], "bustools", "mash")
              /\ Runs(log[t], "bustools", "sort")
              /\ HasOpt(log[t], "--flags")
              /\ Input(log[t]) = MashedBus
              /\ Out(log[t]) # MashedBus
              /\ Moved(log[v], Out(log[t]), MashedBus)
        /\ Input(log[g]) = MashedBus
        /\ Len(log) >= g + 2
        /\ Moved(log[g + 1], Join(OUT_DIR, <<"merged", "bus">>),
                 Join(OUT_DIR, <<"output", "bus">>))
        /\ Moved(log[g + 2], Join(OUT_DIR, <<"merged", "ec">>),
                 Join(OUT_DIR, <<"matrix", "ec">>))
        /\ pc \in {"count_sort", "velocity_sort", "s3_sort"} =>
              /\ loc.bus_result["bus"] = PyArg(log[g + 1], 2)
              /\ loc.bus_result["ecmap"] = PyArg(log[g + 2], 2)

C4_Witness ==
    /\ pc = "s3_sort"
    /\ Cardinality(Calls("bustools", "merge")) = 1
    /\ loc.bus_result["bus"] = Join(OUT_DIR, <<"output", "bus">>)

-----------------------------------------------------------------------------
(* The pseudoalignment step.                                               *)

\* the output files of the pseudoalignment step of each entry point
C2_Expected ==
    CASE cfg.fn = "count" ->
            {<<"output", "bus">>, <<"matrix", "ec">>, <<"transcripts", "txt">>,
             <<"run_info", "json">>}
            \cup (IF Upper(cfg.technology) \in {"BULK", "SMARTSEQ2"}
                  THEN {<<"index", "saved">>} ELSE {})
      [] cfg.fn = "count_velocity" ->
            {<<"output", "bus">>, <<"matrix", "ec">>, <<"transcripts", "txt">>,
             <<"run_info", "json">>}
      [] cfg.fn = "count_smartseq3" ->
            {<<"output", "bus">>, <<"matrix", "ec">>, <<"transcripts", "txt">>,
             <<"run_info", "json">>, <<"flens", "txt">>, <<"index", "saved">>}
      [] OTHER ->
            {<<"matrix", "abundance", "mtx">>, <<"matrix", "ec">>,
             <<"matrix", "cells">>, <<"transcripts", "txt">>,
             <<"run_info", "json">>}

C2_ShouldRun ==
    \/ cfg.existing.overwrite
    \/ \E f \in C2_Expected : Join(OUT_DIR, f) \in cfg.existing.missing

Pseudoaligned ==
    \E j \in 1..Len(log) :
        Runs(log[j], "kallisto", "bus") \/ Runs(log[j], "kallisto", "pseudo")

\* When the step was skipped the later stages ran on the files found in
\* out_dir.
C2_RanOnExisting ==
    /\ Len(log) >= 2
    /\ IF cfg.fn = "count_smartseq"
       THEN /\ IsPy(log[2], "convert_transcripts_to_genes")
            /\ PyArg(log[2], 1) = Join(OUT_DIR, <<"transcripts", "txt">>)
       ELSE /\ Runs(log[2], "bustools", "sort")
            /\ Input(log[2]) = Join(OUT_DIR, <<"output", "bus">>)
            /\ \E j \in Calls("bustools", "count") :
                  /\ OptPath(log[j], "-e") = Join(OUT_DIR, <<"matrix", "ec">>)
                  /\ OptPath(log[j], "-t") =
                        Join(OUT_DIR, <<"transcripts", "txt">>)

\* C2 as stated: in each of the four entry points the pseudoalignment step
\* is run if and only if overwrite is set or one of its output files is
\* missing; a run that skips it still runs the later stages, on the
\* existing files.
C2_AsStated ==
    Finished =>
        /\ Pseudoaligned <=> C2_ShouldRun
        /\ ~Pseudoaligned => C2_RanOnExisting

\* count_smartseq rejects its arguments before it gets to the step
C2_Rejected ==
    /\ cfg.fn = "count_smartseq"
    /\ \/ cfg.nidx > 1
       \/ \E j \in 1..Len(cfg.pairs) : \E m \in 1..2 :
             cfg.pairs[j][m].scheme \in {"http", "https", "ftp", "ftps"}

\* C2, amended: the same, for count_smartseq only when it has accepted its
\* arguments (one index, no remote FASTQ).
C2_PseudoalignIffNeeded ==
    (Finished /\ ~C2_Rejected) =>
        /\ Pseudoaligned <=> C2_ShouldRun
        /\ ~Pseudoaligned => C2_RanOnExisting

C2_Witness ==
    /\ Finished /\ status = "done"
    /\ cfg.fn = "count_smartseq3"
    /\ ~Pseudoaligned
    /\ cfg.nidx > 1

-----------------------------------------------------------------------------
(* kallisto quant-tcc in count.                                            *)

\* C5: in count kallisto quant-tcc is called if and only if tcc is set and
\* the technology is BULK or SMARTSEQ2 in any case; it is called after
\* bustools count, on the matrix bustools count returned; bustools count gets
\* --cm exactly for these two technologies.
C5_QuantIffTccBulk ==
    (cfg.fn = "count" /\ Finished) =>
        LET bulk == Upper(cfg.technology) \in {"BULK", "SMARTSEQ2"}
            counts == {j \in Calls("bustools", "count") : log[j].caller = "count"}
            quants == Calls("kallisto", "quant-tcc")
        IN  /\ quants # {} <=> (cfg.tcc /\ bulk)
            /\ \A q \in quants :
                  /\ \E j \in counts : j < q
                  /\ Input(log[q]) = loc.count_result["mtx"]
            /\ \A j \in counts : HasOpt(log[j], "--cm") <=> bulk

-----------------------------------------------------------------------------
(* The whitelist.                                                          *)

\* the calls of copy_or_create_whitelist
WhitelistCalls ==
    {j \in 1..Len(log) :
        log[j].caller = "call" /\ IsPy(log[j], "copy_or_create_whitelist")}

\* what copy_or_create_whitelist did
WhitelistActions ==
    {j \in 1..Len(log) : log[j].caller = "copy_or_create_whitelist"}

\* C6: copy_or_create_whitelist does exactly one of two things: it copies
\* the pre-packaged whitelist when the technology has one, and otherwise
\* runs bustools whitelist on the BUS file it was given, writing and
\* returning the whitelist file in out_dir.  count calls it if and only if
\* no whitelist was given and fastqs is not a batch file, on the output of
\* its first bustools sort.
C6_CopyOrCreate ==
    /\ Cardinality(WhitelistActions) = Cardinality(WhitelistCalls)
    /\ \A j \in WhitelistCalls :
          LET technology == log[j].cmd[3].s
              bus_path == PyArg(log[j], 2)
              act == log[j + 1]
          IN  /\ j + 1 \in WhitelistActions
              /\ IF whitelist_provided(technology)
                 THEN /\ IsPy(act, "copy_whitelist")
                      /\ act.cmd[3] = S(technology)
                 ELSE /\ Runs(act, "bustools", "whitelist")
                      /\ Input(act) = bus_path
                      /\ Out(act) = Join(OUT_DIR, WHITELIST_FILENAME)
                      /\ loc.whitelist_path = Out(act)
    /\ (cfg.fn = "count" /\ pc \in {"count_fb", "count_inspect", "count_correct",
                                     "count_count", "count_quant",
                                     "count_cellranger", "count_filter",
                                     "count_report", "end"}) =>
          /\ WhitelistCalls # {} <=>
                (cfg.whitelist_path = NoPath /\ ~cfg.fastqs.batch)
          /\ Cardinality(WhitelistCalls) <= 1
          /\ \A j \in WhitelistCalls :
                /\ PyArg(log[j], 2) = Out(CountStages[1])
                /\ Sub(CountStages[1]) = "sort"
                /\ Sub(log[j - 1]) = "sort"

C6_Witness ==
    /\ cfg.fn = "count" /\ Finished
    /\ WhitelistCalls # {}
    /\ whitelist_provided(cfg.technology)
    /\ cfg.nidx > 1

-----------------------------------------------------------------------------
(* The cellranger conversion of a TCC matrix.                              *)

ConvertedToCellranger(l) ==
    \E j \in 1..Len(l) : IsPy(l[j], "matrix_to_cellranger")

WarnedAboutTcc(l) ==
    \E j \in 1..Len(l) : IsPy(l[j], "logger.warning")

\* C7: when tcc and cellranger are both set, the step of count and of
\* count_velocity that would convert the matrix does not call
\* matrix_to_cellranger, logs the warning and lets the run go on.
C7_TccSkipsCellranger ==
    [][(pc \in {"count_cellranger", "velocity_prefix"}
          /\ cfg'.tcc /\ cfg'.cellranger) =>
       (/\ status' = "running"
        /\ ~ConvertedToCellranger(log')
        /\ WarnedAboutTcc(log'))]_vars

-----------------------------------------------------------------------------
(* The argument checks of count_smartseq.                                  *)

\* C8: count_smartseq raises when more than one index is given and when a
\* FASTQ of a pair has scheme http, https, ftp or ftps, and has then
\* created no directory, written no batch file and called no tool.
C8_RaisesBeforeAnything ==
    (/\ cfg.fn = "count_smartseq"
     /\ pc # "start"
     /\ \/ cfg.nidx > 1
        \/ \E j \in 1..Len(cfg.pairs) : \E m \in 1..2 :
              cfg.pairs[j][m].scheme \in {"http", "https", "ftp", "ftps"})
    => /\ Finished
       /\ status = IF cfg.nidx > 1 THEN "Exception: multiple indices"
                   ELSE "Exception: FASTQ streaming"
       /\ log = <<>>
       /\ results = EmptyDict

C8_Witness ==
    /\ cfg.fn = "count_smartseq"
    /\ cfg.nidx = 1
    /\ status = "Exception: FASTQ streaming"
    /\ cfg.pairs[Len(cfg.pairs)][2].scheme = "ftp"

-----------------------------------------------------------------------------
(* The two prefixes of count_velocity.                                     *)

\* the captures that read the corrected and sorted BUS file
UnfilteredCaptures ==
    {j \in Calls("bustools", "capture") : Input(log[j]) = UnfilteredBus}

\* Capture at position j, then sort, inspect when asked for, and count, each
\* on the output of the one before, for the prefix and the capture list.
PrefixStages(j, prefix, list) ==
    LET n == IF cfg.inspect THEN j + 3 ELSE j + 2
    IN  /\ Len(log) >= n
        /\ Out(log[j]) = Join(<<"tmp">>, <<prefix, "bus">>)
        /\ OptPath(log[j], "-c") = list
        /\ HasOpt(log[j], "--complement")
        /\ Runs(log[j + 1], "bustools", "sort")
        /\ Input(log[j + 1]) = Out(log[j])
        /\ Out(log[j + 1]) = Join(<<"out">>, <<prefix, "unfiltered", "bus">>)
        /\ cfg.inspect =>
              /\ Runs(log[j + 2], "bustools", "inspect")
              /\ Input(log[j + 2]) = Out(log[j + 1])
        /\ Runs(log[n], "bustools", "count")
        /\ Input(log[n]) = Out(log[j + 1])

\* C9: in count_velocity each of the two prefixes goes through bustools
\* capture, sort, inspect (when inspect is set) and count in this order,
\* starting from the corrected and sorted BUS file; capture is called with
\* --complement, so the cDNA prefix is captured with the intron list and the
\* intron prefix with the cDNA list.
C9_VelocityPrefixes ==
    (cfg.fn = "count_velocity"
       /\ pc \in {"velocity_filter", "velocity_report", "end"}) =>
        /\ Cardinality(UnfilteredCaptures) = 2
        /\ \E j \in UnfilteredCaptures :
              PrefixStages(j, "spliced", UserPath(<<"intron_t2c", "txt">>))
        /\ \E j \in UnfilteredCaptures :
              PrefixStages(j, "unspliced", UserPath(<<"cdna_t2c", "txt">>))
        /\ \E c, t \in 1..Len(log) :
              /\ c < t
              /\ \A j \in UnfilteredCaptures : t < j
              /\ Runs(log[c], "bustools", "correct")
              /\ Runs(log[t], "bustools", "sort")
              /\ Input(log[t]) = Out(log[c])
              /\ Out(log[t]) = UnfilteredBus

C9_Witness ==
    /\ cfg.fn = "count_velocity" /\ Finished /\ status = "done"
    /\ cfg.inspect /\ cfg.filter = "bustools"
    /\ Cardinality(Calls("bustools", "capture")) = 4

-----------------------------------------------------------------------------
(* count on a batch file.                                                  *)

\* stream_batch rewrote the batch file and kallisto bus then got the
\* rewritten file after --batch as its last arguments, and no -x.
C10_BatchPassed ==
    \E r, b \in 1..Len(log) :
        /\ r < b
        /\ log[r].caller = "stream_batch"
        /\ PyArg(log[r], 1) = BatchPath
        /\ PyArg(log[r], 2) # BatchPath
        /\ Runs(log[b], "kallisto", "bus")
        /\ LET n == Len(log[b].cmd)
           IN  /\ log[b].cmd[n - 1] = S("--batch")
               /\ log[b].cmd[n] = P(PyArg(log[r], 2))
        /\ ~HasOpt(log[b], "-x")

\* C10 as stated: a completed run of count with one index and a batch file
\* rewrites the batch file and hands it to kallisto bus with --batch and
\* without -x (read here as: when kallisto bus runs at all); bustools correct
\* is never called and bustools count reads the output of the first bustools
\* sort.
C10_AsStated ==
    (cfg.fn = "count" /\ cfg.nidx = 1 /\ cfg.fastqs.batch
       /\ Finished /\ status = "done") =>
        /\ C2_ShouldRun => C10_BatchPassed
        /\ Calls("bustools", "correct") = {}
        /\ LET st == CountStages
           IN  /\ Sub(st[1]) = "sort"
               /\ Sub(st[Len(st)]) = "count"
               /\ Input(st[Len(st)]) = Out(st[1])

\* C10, amended: unless kallisto bus is skipped because its outputs exist,
\* the batch file is rewritten and handed to kallisto bus with --batch and
\* without -x; count itself never calls bustools correct (filter_with_bustools
\* does when filter is 'bustools'), and bustools count reads the output of
\* the most recent bustools sort: the first, or with FB the one after
\* bustools project.
C10_BatchRun ==
    (cfg.fn = "count" /\ cfg.nidx = 1 /\ cfg.fastqs.batch /\ Finished) =>
        /\ C2_ShouldRun => C10_BatchPassed
        /\ ~C2_ShouldRun => ~Pseudoaligned
        /\ \A j \in Calls("bustools", "correct") :
              /\ log[j].caller = "filter_with_bustools"
              /\ cfg.filter = "bustools"
        /\ LET st == CountStages
           IN  /\ SubsOf(st) = IF cfg.FB
                               THEN <<"sort", "project", "sort", "count">>
                               ELSE <<"sort", "count">>
               /\ Chained(st)

C10_Witness ==
    /\ cfg.fn = "count" /\ cfg.nidx = 1 /\ cfg.fastqs.batch /\ Finished
    /\ status = "done"
    /\ C10_BatchPassed
    /\ cfg.FB /\ cfg.filter = "bustools"

-----------------------------------------------------------------------------
(* A batch file with several indices, and in count_velocity.               *)

\* the kallisto bus call got a batch file after --batch as its last
\* arguments, and no -x
BatchCall(e) ==
    LET n == Len(e.cmd)
    IN  /\ e.cmd[n - 1] = S("--batch")
        /\ e.cmd[n].p # NoPath
        /\ ~HasOpt(e, "-x")

\* C11: when fastqs is a batch file, every kallisto bus call that count
\* makes through kallisto_bus_split (more than one index) and every kallisto
\* bus call of count_velocity gets the batch file after --batch and no -x,
\* as the call of count with a single index does.
C11_BatchEverywhere ==
    (/\ cfg.fastqs.batch
     /\ \/ cfg.fn = "count" /\ cfg.nidx > 1
        \/ cfg.fn = "count_velocity") =>
        \A j \in Calls("kallisto", "bus") : BatchCall(log[j])

-----------------------------------------------------------------------------
(* The input of filter_with_bustools.                                      *)

\* the bustools calls filter_with_bustools made
FilterStages ==
    LET Stage(e) == e.caller = "filter_with_bustools" /\ Prog(e) = "bustools"
    IN  SelectSeq(log, Stage)

\* the position of the first call filter_with_bustools made: bustools
\* whitelist, which reads bus_path
FilterStart ==
    CHOOSE w \in 1..Len(log) :
        /\ log[w].caller = "filter_with_bustools"
        /\ \A j \in 1..(w - 1) : log[j].caller # "filter_with_bustools"

\* the BUS file was written by a bustools sort that read the output of a
\* bustools correct, both before position w of the log
SortedCorrectedSorted(bus, w) ==
    \E c, t \in 1..(w - 1) :
        /\ c < t
        /\ Runs(log[c], "bustools", "correct")
        /\ Runs(log[t], "bustools", "sort")
        /\ Input(log[t]) = Out(log[c])
        /\ Out(log[t]) = bus

\* C12: whenever count or count_velocity has called filter_with_bustools,
\* its bus_path is the output of the bustools sort that followed bustools
\* correct in the same run, and filter_with_bustools ran bustools whitelist,
\* correct, sort and, when it counts, count, in this order.
C12_FilterInput ==
    (cfg.fn \in {"count", "count_velocity"} /\ Len(FilterStages) > 0) =>
        /\ Runs(log[FilterStart], "bustools", "whitelist")
        /\ SortedCorrectedSorted(Input(log[FilterStart]), FilterStart)
        /\ SubsOf(FilterStages) =
              IF cfg.fn = "count"
              THEN <<"whitelist", "correct", "sort", "count">>
              ELSE <<"whitelist", "correct", "sort">>
        /\ Chained(SubSeq(FilterStages, 2, Len(FilterStages)))

-----------------------------------------------------------------------------
(* The report.                                                             *)

\* the positions in the log of a library call of the coordinator
PyCalls(name) == {j \in 1..Len(log) : IsPy(log[j], name)}

\* C13: a run of count or count_velocity with report set that has come to
\* save the statistics file ends with render_report called after the save
\* and with the notebook and the HTML report among the unfiltered results,
\* whatever the other flags are, inspect unset included.
C13_ReportRendered ==
    (/\ cfg.fn \in {"count", "count_velocity"}
     /\ Finished /\ cfg.report
     /\ PyCalls("STATS.save") # {}) =>
        /\ status = "done"
        /\ \E r \in PyCalls("render_report") :
              \A j \in PyCalls("STATS.save") : j < r
        /\ Has(results, "unfiltered.report_html")
        /\ results["unfiltered.report_html"] =
              Join(OUT_DIR, REPORT_HTML_FILENAME)

-----------------------------------------------------------------------------
(* The two captures of count_smartseq3.                                    *)

\* the capture list write_smartseq3_capture wrote: one line of 32 'T'
Smartseq3CaptureList(path) ==
    \E j \in PyCalls("write_smartseq3_capture") :
        /\ PyArg(log[j], 1) = path
        /\ log[j].cmd[4] = S("T*32")

\* the matrix a bustools count call wrote
MatrixOf(e) == WithSuffix(Out(e), <<"mtx">>)

\* the first and the last of a non-empty set of positions
First(js) == CHOOSE j \in js : \A k \in js : j <= k
Last(js) == CHOOSE j \in js : \A k \in js : k <= j

\* C14: count_smartseq3 calls bustools capture twice on the corrected and
\* sorted BUS file, with the same capture list (one line of 32 'T') and
\* --umis: first without --complement into the internal BUS file, then with
\* --complement into the UMI BUS file; the internal file is counted with
\* --cm and without --umi-gene, the UMI file with --umi-gene and without
\* --cm; with tcc set kallisto quant-tcc runs once on each of the two count
\* matrices, after both counts, and never without tcc.
C14_Smartseq3Captures ==
    (cfg.fn = "count_smartseq3" /\ Finished) =>
        LET captures == Calls("bustools", "capture")
            counts == Calls("bustools", "count")
            quants == Calls("kallisto", "quant-tcc")
        IN  /\ Cardinality(captures) = 2
            /\ Cardinality(counts) = 2
            /\ LET a == First(captures)
                   b == Last(captures)
               IN  /\ Input(log[a]) = UnfilteredBus
                   /\ Input(log[b]) = UnfilteredBus
                   /\ OptPath(log[a], "-c") = OptPath(log[b], "-c")
                   /\ Smartseq3CaptureList(OptPath(log[a], "-c"))
                   /\ HasOpt(log[a], "--umis") /\ HasOpt(log[b], "--umis")
                   /\ ~HasOpt(log[a], "--complement")
                   /\ HasOpt(log[b], "--complement")
                   /\ Out(log[a]) = Join(OUT_DIR, <<"output_internal", "bus">>)
                   /\ Out(log[b]) = Join(OUT_DIR, <<"output_umi", "bus">>)
                   /\ b < First(counts)
                   /\ \E ci, cu \in counts :
                         /\ Input(log[ci]) = Out(log[a])
                         /\ HasOpt(log[ci], "--cm")
                         /\ ~HasOpt(log[ci], "--umi-gene")
                         /\ Input(log[cu]) = Out(log[b])
                         /\ HasOpt(log[cu], "--umi-gene")
                         /\ ~HasOpt(log[cu], "--cm")
                         /\ IF cfg.tcc
                            THEN /\ Cardinality(quants) = 2
                                 /\ Last(counts) < First(quants)
                                 /\ \E qi, qu \in quants :
                                       /\ Input(log[qi]) = MatrixOf(log[ci])
                                       /\ Input(log[qu]) = MatrixOf(log[cu])
                            ELSE quants = {}

-----------------------------------------------------------------------------
(* The results never point into the temporary directory.                   *)

\* the paths recorded in the results
Recorded == {results[k] : k \in DOMAIN results}

\* the outputs of bustools sort, project, correct and capture calls that
\* were written to temp_dir
Intermediate ==
    {Out(log[j]) : j \in {i \in 1..Len(log) :
                            /\ Prog(log[i]) = "bustools"
                            /\ Sub(log[i]) \in {"sort", "project", "correct",
                                                "capture"}
                            /\ Under(Out(log[i]), TEMP_DIR)}}

\* C15: in count, count_velocity and count_smartseq3 every path recorded in
\* the results lies under out_dir and none under temp_dir; the outputs that
\* bustools sort, project, correct and capture wrote to temp_dir are not
\* among them.
C15_NoTempInResults ==
    cfg.fn \in {"count", "count_velocity", "count_smartseq3"} =>
        /\ \A p \in Recorded : Under(p, OUT_DIR) /\ ~Under(p, TEMP_DIR)
        /\ Recorded \cap Intermediate = {}

C15_Witness ==
    /\ cfg.fn = "count_velocity" /\ Finished /\ status = "done"
    /\ cfg.filter = "bustools" /\ cfg.nidx > 1
    /\ Cardinality(Intermediate) >= 6
    /\ Has(results, "filtered.bus_scs")
    /\ Has(results, "unfiltered.bus_scs")

====
